---- MODULE Spec2Model ----
(***************************************************************************)
(* Causal knowledge graph (src/src/graph/models.py) and the augmentation   *)
(* engine (src/ckg-augment/ckg_augment/augmenter.py) as a state machine.   *)
(*                                                                         *)
(* Text is modelled as a tuple of one-character strings, so stripping,     *)
(* lower-casing, substring tests, replacement and the percent regex are    *)
(* computed on characters as the Python code computes them.  The CJK       *)
(* characters of the bilingual table are written by code point             *)
(* ("u62C9" "u6A94" is the throttling term).  Confidences are integer      *)
(* hundredths (0.3 is 30).  Hash-derived ids are modelled as the tuple of  *)
(* the hashed fields, i.e. the digest is taken to be collision free.       *)
(***************************************************************************)
EXTENDS Integers, Sequences, FiniteSets, TLC

VARIABLES
    entities,    \* CausalGraph._entities: id -> Entity, in insertion order
    relations,   \* CausalGraph._relations
    edges,       \* CausalGraph._graph: the DiGraph edge index
    strict_dag,  \* CausalGraph._strict_dag
    diff,        \* AugmentDiff returned by the last augment() call
    id_map,      \* augment(): temporary id -> graph id, of the last call
    marks,       \* augment(): sizes of _entities and _relations before the last call and
                 \* after each of its phases, and the causal relations around phase B
    last,        \* the last call: operation, arguments and raised exception
    repeated,    \* the last call was augment() with the arguments of the augment() right before it
    augments,    \* number of augment() calls made
    result,      \* what the last query of the graph returned
    output_root  \* the run folders under output_root: run id -> contents

vars == <<entities, relations, edges, strict_dag, diff, id_map, marks, last, repeated, augments,
          result, output_root>>

\* a local variable of the code (x = value; body): body with its parameter bound to value
Bind(value, body(_)) == body(value)

-----------------------------------------------------------------------------
(* Bounds of the model *)

MaxEntities == 3
MaxRelations == 3
MaxAugments == 2
\* the largest max_iters of a run configuration
MaxIters == 3

-----------------------------------------------------------------------------
(* Enumerations: models.py *)

EntityType ==
    {"Symptom", "Component", "Metric", "Hypothesis", "RootCause", "Action",
     "Observation", "Conclusion"}

RelationType ==
    {"CAUSES", "PREVENTS", "ENABLES", "INDICATES", "CONFIRMS", "RULES_OUT",
     "LEADS_TO", "DEPENDS_ON", "CORRELATES_WITH", "ASSOCIATED_WITH"}

CAUSAL_RELATION_TYPES == {"CAUSES", "PREVENTS", "ENABLES"}

\* a variant of is_causal that knows CAUSES only
causes_only(r) == r.relation_type = "CAUSES"

is_causal(r) == r.relation_type \in CAUSAL_RELATION_TYPES

-----------------------------------------------------------------------------
(* Python str operations on tuples of characters *)

UpperChars ==
    <<"A","B","C","D","E","F","G","H","I","J","K","L","M","N","O","P","Q","R",
      "S","T","U","V","W","X","Y","Z">>
LowerChars ==
    <<"a","b","c","d","e","f","g","h","i","j","k","l","m","n","o","p","q","r",
      "s","t","u","v","w","x","y","z">>
DigitChars == {"0","1","2","3","4","5","6","7","8","9"}

Range(s) == {s[i] : i \in 1..Len(s)}

char_lower(c) ==
    IF \E i \in 1..26 : UpperChars[i] = c
    THEN LowerChars[CHOOSE i \in 1..26 : UpperChars[i] = c]
    ELSE c

\* str.lower()
str_lower(s) == [i \in 1..Len(s) |-> char_lower(s[i])]

\* str.strip(chars): drop leading and trailing characters of the set
str_strip_chars(s, chars) ==
    LET keep == {i \in 1..Len(s) : s[i] \notin chars}
    IN IF keep = {} THEN <<>>
       ELSE LET lo == CHOOSE i \in keep : \A j \in keep : i <= j
                hi == CHOOSE i \in keep : \A j \in keep : j <= i
            IN SubSeq(s, lo, hi)

\* str.strip()
str_strip(s) == str_strip_chars(s, {" "})

\* s[i:i+len(p)] == p
match_at(s, i, p) ==
    /\ i >= 1
    /\ i + Len(p) - 1 <= Len(s)
    /\ \A k \in 1..Len(p) : s[i + k - 1] = p[k]

\* "p in s"
str_contains(s, p) == \E i \in 1..(Len(s) + 1) : match_at(s, i, p)

\* s.startswith(p)
str_startswith(s, p) == match_at(s, 1, p)

\* str.replace(src, dst), src not empty
RECURSIVE str_replace_from(_, _, _, _)
str_replace_from(s, i, src, dst) ==
    IF i > Len(s) THEN <<>>
    ELSE IF match_at(s, i, src)
         THEN dst \o str_replace_from(s, i + Len(src), src, dst)
         ELSE <<s[i]>> \o str_replace_from(s, i + 1, src, dst)

str_replace(s, src, dst) == str_replace_from(s, 1, src, dst)

\* " ".join(s.split())
RECURSIVE join_split_from(_, _, _)
join_split_from(s, i, pending) ==
    IF i > Len(s) THEN <<>>
    ELSE IF s[i] = " " THEN join_split_from(s, i + 1, pending)
    ELSE (IF pending /\ i > 1 /\ s[i - 1] = " " THEN <<" ">> ELSE <<>>)
         \o <<s[i]>> \o join_split_from(s, i + 1, TRUE)

join_split(s) == join_split_from(s, 1, FALSE)

\* s.split(sep) for a non-empty separator, each part stripped, empty parts dropped
\* (augmenter.py 395-396)
RECURSIVE split_from(_, _, _, _)
split_from(s, i, start, sep) ==
    IF i > Len(s) THEN <<SubSeq(s, start, Len(s))>>
    ELSE IF match_at(s, i, sep)
         THEN <<SubSeq(s, start, i - 1)>> \o split_from(s, i + Len(sep), i + Len(sep), sep)
         ELSE split_from(s, i + 1, start, sep)

split_parts(s, sep) ==
    LET raw == split_from(s, 1, 1, sep)
        stripped == [k \in 1..Len(raw) |-> str_strip(raw[k])]
    IN SelectSeq(stripped, LAMBDA p : p # <<>>)

-----------------------------------------------------------------------------
(* The percent-token regular expression \d+(?:\.\d+)?\s*% of augmenter.py   *)
(* 645, 670 and 676, matched the way Python's re matches it.               *)

LowerWordChars == Range(LowerChars) \cup DigitChars \cup {"_"}
WordChars == LowerWordChars \cup Range(UpperChars)

RECURSIVE char_run(_, _, _)
char_run(s, i, set) ==
    IF i >= 1 /\ i <= Len(s) /\ s[i] \in set THEN 1 + char_run(s, i + 1, set) ELSE 0

\* length of the number \d+(?:\.\d+)? at i, fraction included, whose digits run d characters
pct_num(s, i, d) ==
    IF /\ d > 0
       /\ i + d <= Len(s)
       /\ s[i + d] = "."
       /\ char_run(s, i + d + 1, DigitChars) > 0
    THEN d + 1 + char_run(s, i + d + 1, DigitChars)
    ELSE d

\* length of \s*% at j followed by no character of cls (cls = {} : no lookahead); 0 if none
pct_tail(s, j, cls) ==
    Bind(char_run(s, j, {" "}), LAMBDA k :
        IF /\ j + k <= Len(s)
           /\ s[j + k] = "%"
           /\ (j + k + 1 > Len(s) \/ s[j + k + 1] \notin cls)
        THEN k + 1 ELSE 0)

\* <<length of the match starting at i, length of its number>>, <<0, 0>> if none: the number
\* with its fraction is tried first, then the digits alone.
\* cls is the class of the lookbehind and the lookahead ({} when the pattern has none).
pct_match(s, i, cls) ==
    Bind(char_run(s, i, DigitChars), LAMBDA d :
    Bind(pct_num(s, i, d), LAMBDA n :
        IF d = 0 \/ (i > 1 /\ s[i - 1] \in cls) THEN <<0, 0>>
        ELSE IF n > d /\ pct_tail(s, i + n, cls) > 0
             THEN <<n + pct_tail(s, i + n, cls), n>>
        ELSE IF pct_tail(s, i + d, cls) > 0
             THEN <<d + pct_tail(s, i + d, cls), d>>
        ELSE <<0, 0>>))

\* a variant of pct_sub that leaves the percent values in the text
pct_kept(s, cls) == s

\* re.sub(r"(?<![cls])\d+(?:\.\d+)?\s*%(?![cls])", " ", s)
RECURSIVE pct_sub_from(_, _, _)
pct_sub_from(s, i, cls) ==
    IF i > Len(s) THEN <<>>
    ELSE Bind(pct_match(s, i, cls), LAMBDA m :
             IF m[1] > 0
             THEN <<" ">> \o pct_sub_from(s, i + m[1], cls)
             ELSE <<s[i]>> \o pct_sub_from(s, i + 1, cls))

pct_sub(s, cls) == pct_sub_from(s, 1, cls)

\* augmenter.py 669-673: the {value, num, unit} records of re.finditer
RECURSIVE pct_values_from(_, _)
pct_values_from(s, i) ==
    IF i > Len(s) THEN <<>>
    ELSE Bind(pct_match(s, i, {}), LAMBDA m :
             IF m[1] > 0
             THEN <<[value |-> SubSeq(s, i, i + m[2] - 1) \o <<"%">>,
                     num |-> SubSeq(s, i, i + m[2] - 1),
                     unit |-> <<"%">>]>> \o pct_values_from(s, i + m[1])
             ELSE pct_values_from(s, i + 1))

-----------------------------------------------------------------------------
(* Label normalisation: augmenter.py *)

\* augmenter.py 635-642: lower-case, then the three replacements in order: the throttling
\* term (u62C9 u6A94), "ddr " + the voting term (u6295 u7968 u6A5F u5236), the voting term
normalize_terms(label) ==
    str_replace(
        str_replace(
            str_replace(str_lower(str_strip(label)),
                        <<"u62C9", "u6A94">>,
                        <<"f","r","e","q","u","e","n","c","y"," ",
                          "t","h","r","o","t","t","l","i","n","g">>),
            <<"d","d","r"," ", "u6295", "u7968", "u6A5F", "u5236">>,
            <<"d","d","r"," ", "v","o","t","i","n","g">>),
        <<"u6295", "u7968", "u6A5F", "u5236">>, <<"v","o","t","i","n","g">>)

\* CkgAugmenter._normalize_label
_normalize_label(label) == join_split(pct_sub(normalize_terms(label), LowerWordChars))

\* re.sub(r"\b(at|of)\b\s*$", "", s, flags=re.IGNORECASE)
drop_trailing_at_of(s) ==
    LET hit(i) ==
            /\ i + 1 <= Len(s)
            /\ (i = 1 \/ s[i - 1] \notin WordChars)
            /\ str_lower(SubSeq(s, i, i + 1)) \in {<<"a","t">>, <<"o","f">>}
            /\ (i + 2 > Len(s) \/ s[i + 2] \notin WordChars)
            /\ \A k \in (i + 2)..Len(s) : s[k] = " "
        hits == {i \in 1..Len(s) : hit(i)}
    IN IF hits = {} THEN s
       ELSE SubSeq(s, 1, (CHOOSE i \in hits : \A j \in hits : i <= j) - 1)

\* CkgAugmenter._canonicalize_metric_label: <<canonical label, extra attributes>>;
\* an absent raw_label / metric_values key is the empty tuple
_canonicalize_metric_label(label) ==
    Bind(str_strip(label), LAMBDA raw :
    Bind(str_strip(drop_trailing_at_of(
             str_strip_chars(join_split(pct_sub(raw, WordChars)), {" ", "-", ":", ";"}))),
         LAMBDA canon :
        IF raw = <<>>
        THEN <<(<<>>), [raw_label |-> <<>>, metric_values |-> <<>>]>>
        ELSE <<(IF canon # <<>> THEN canon ELSE raw),
               [raw_label |-> raw, metric_values |-> pct_values_from(raw, 1)]>>))

-----------------------------------------------------------------------------
(* CausalGraph: models.py 179-372.  A graph value g is the record of the   *)
(* object's fields [entities, relations, edges, strict_dag].               *)

\* Entity.attributes of an entity built without attributes (models.py 69)
\* provenance, raw_label, metric_values, report_id, source_text: the keys the augmenter
\* writes; an absent key is empty
NoAttributes ==
    [provenance |-> <<>>, raw_label |-> <<>>, metric_values |-> <<>>,
     report_id |-> <<>>, source_text |-> <<>>]

\* models.py 62-71
Entity(id, entity_type, label, description, attributes, confidence, source_text) ==
    [id |-> id, entity_type |-> entity_type, label |-> label,
     description |-> description, attributes |-> attributes,
     confidence |-> confidence, source_text |-> source_text]

\* models.py 125-134; causal_effect is <<>> for None
Relation(source_id, target_id, relation_type, confidence, evidence, causal_effect, attributes) ==
    [source_id |-> source_id, target_id |-> target_id,
     relation_type |-> relation_type, confidence |-> confidence,
     evidence |-> evidence, causal_effect |-> causal_effect,
     attributes |-> attributes]

\* keys of the dict _entities
entity_ids(g) == {g.entities[i].id : i \in 1..Len(g.entities)}

\* position of id in _entities, 0 when absent
entity_pos(g, id) ==
    IF \E i \in 1..Len(g.entities) : g.entities[i].id = id
    THEN CHOOSE i \in 1..Len(g.entities) : g.entities[i].id = id
    ELSE 0

\* CausalGraph.add_entity: dict assignment keeps the position of an existing key
add_entity(g, entity) ==
    LET p == entity_pos(g, entity.id)
    IN [g EXCEPT !.entities = IF p > 0 THEN [@ EXCEPT ![p] = entity]
                               ELSE Append(@, entity)]

\* nodes reachable from the set S along the edge index (S included)
RECURSIVE reach_from(_, _)
reach_from(E, S) ==
    LET N == S \cup {e.v : e \in {x \in E : x.u \in S}}
    IN IF N = S THEN S ELSE reach_from(E, N)

\* nx.has_path(G, source, target)
has_path(E, source, target) == target \in reach_from(E, {source})

\* a variant of _would_create_cycle that looks for the reverse edge only
reverse_edge_exists(g, source, target) ==
    \E e \in g.edges : e.u = target /\ e.v = source

\* CausalGraph._would_create_cycle
_would_create_cycle(g, source, target) == has_path(g.edges, target, source)

\* nx.DiGraph.add_edge: one edge per ordered pair, the attributes of the last write
add_edge(E, relation) ==
    {e \in E : ~(e.u = relation.source_id /\ e.v = relation.target_id)}
    \cup {[u |-> relation.source_id, v |-> relation.target_id,
           relation_type |-> relation.relation_type,
           confidence |-> relation.confidence]}

\* a variant of add_relation that runs the cycle check for every relation type
add_relation_any_type(g, relation, validate_dag) ==
    IF relation.source_id \notin entity_ids(g)
    THEN [g |-> g, exc |-> "ValueError"]
    ELSE IF relation.target_id \notin entity_ids(g)
    THEN [g |-> g, exc |-> "ValueError"]
    ELSE IF /\ g.strict_dag /\ validate_dag
            /\ _would_create_cycle(g, relation.source_id, relation.target_id)
    THEN [g |-> g, exc |-> "CausalGraphValidationError"]
    ELSE [g |-> [g EXCEPT !.relations = Append(@, relation),
                          !.edges = add_edge(@, relation)],
          exc |-> "none"]

\* a variant of add_relation that does not look the target up
add_relation_source_only(g, relation, validate_dag) ==
    IF relation.source_id \notin entity_ids(g)
    THEN [g |-> g, exc |-> "ValueError"]
    ELSE IF /\ g.strict_dag /\ validate_dag /\ is_causal(relation)
            /\ _would_create_cycle(g, relation.source_id, relation.target_id)
    THEN [g |-> g, exc |-> "CausalGraphValidationError"]
    ELSE [g |-> [g EXCEPT !.relations = Append(@, relation),
                          !.edges = add_edge(@, relation)],
          exc |-> "none"]

\* CausalGraph.add_relation: [g |-> the graph afterwards, exc |-> the exception raised]
add_relation(g, relation, validate_dag) ==
    IF relation.source_id \notin entity_ids(g)
    THEN [g |-> g, exc |-> "ValueError"]
    ELSE IF relation.target_id \notin entity_ids(g)
    THEN [g |-> g, exc |-> "ValueError"]
    ELSE IF /\ g.strict_dag /\ validate_dag /\ is_causal(relation)
            /\ _would_create_cycle(g, relation.source_id, relation.target_id)
    THEN [g |-> g, exc |-> "CausalGraphValidationError"]
    ELSE [g |-> [g EXCEPT !.relations = Append(@, relation),
                          !.edges = add_edge(@, relation)],
          exc |-> "none"]

\* nx.is_directed_acyclic_graph on an edge set
acyclic(E) ==
    \A e \in E : e.u \notin reach_from(E, {e.v})

\* CausalGraph.is_valid_dag
is_valid_dag(g) == acyclic(g.edges)

\* self._graph.successors(entity_id): the targets of the edges out of entity_id, in the
\* order in which add_relation first made them
successors(g, entity_id) ==
    LET out == {i \in 1..Len(g.relations) :
                   /\ g.relations[i].source_id = entity_id
                   /\ \A j \in 1..(i - 1) : ~(/\ g.relations[j].source_id = entity_id
                                              /\ g.relations[j].target_id
                                                    = g.relations[i].target_id)}
    IN [i \in 1..Cardinality(out) |->
          g.relations[CHOOSE k \in out : Cardinality({m \in out : m <= k}) = i].target_id]

\* CausalGraph.get_causal_chain at call depth `depth`: [exc, chains].  The recursion has
\* no visited set: once the call stack is deeper than the number of entities an entity is
\* on it twice, the calls repeat until the interpreter raises RecursionError.
RECURSIVE get_causal_chain(_, _, _)
RECURSIVE successor_chains(_, _, _, _, _, _)
get_causal_chain(g, entity_id, depth) ==
    IF entity_id \notin entity_ids(g) THEN [exc |-> "none", chains |-> <<>>]
    ELSE IF depth > Len(g.entities) THEN [exc |-> "RecursionError", chains |-> <<>>]
    ELSE Bind(successor_chains(g, entity_id, successors(g, entity_id), 1, depth, <<>>),
              LAMBDA r :
                 IF r.exc = "none" /\ r.chains = <<>>
                 THEN [exc |-> "none", chains |-> <<(<<entity_id>>)>>]
                 ELSE r)

\* models.py 307-313: the loop over the successors from position i on, chains so far
successor_chains(g, entity_id, succ, i, depth, chains) ==
    IF i > Len(succ) THEN [exc |-> "none", chains |-> chains]
    ELSE Bind(get_causal_chain(g, succ[i], depth + 1), LAMBDA sub :
             IF sub.exc # "none" THEN [exc |-> sub.exc, chains |-> <<>>]
             ELSE successor_chains(
                      g, entity_id, succ, i + 1, depth,
                      chains \o (IF sub.chains # <<>>
                                 THEN [k \in 1..Len(sub.chains) |->
                                          <<entity_id>> \o sub.chains[k]]
                                 ELSE <<(<<entity_id, succ[i]>>)>>)))

\* data.get(key, default)
dict_get_or(data, key, default) == IF key \in DOMAIN data THEN data[key] ELSE default

\* Entity.to_dict
entity_to_dict(e) ==
    [id |-> e.id, type |-> e.entity_type, label |-> e.label, description |-> e.description,
     attributes |-> e.attributes, confidence |-> e.confidence, source_text |-> e.source_text]

\* Entity.from_dict
entity_from_dict(data) ==
    Entity(data.id, data.type, data.label, dict_get_or(data, "description", ""),
           dict_get_or(data, "attributes", NoAttributes), dict_get_or(data, "confidence", 100),
           dict_get_or(data, "source_text", <<>>))

\* Relation.to_dict with CausalEffect.to_dict: the key causal_effect is there only for a
\* relation that has one
relation_to_dict(r) ==
    LET base == [source |-> r.source_id, target |-> r.target_id, type |-> r.relation_type,
                 is_causal |-> is_causal(r), confidence |-> r.confidence,
                 evidence |-> r.evidence, attributes |-> r.attributes]
    IN IF r.causal_effect = <<>> THEN base
       ELSE [k \in DOMAIN base \cup {"causal_effect"} |->
               IF k = "causal_effect"
               THEN [strength |-> r.causal_effect.strength,
                     is_direct |-> r.causal_effect.is_direct,
                     temporal_order |-> r.causal_effect.temporal_order,
                     mechanism |-> r.causal_effect.mechanism]
               ELSE base[k]]

\* Relation.from_dict with CausalEffect.from_dict; is_causal of the document is not read
relation_from_dict(data) ==
    Relation(data.source, data.target, data.type, dict_get_or(data, "confidence", 100),
             dict_get_or(data, "evidence", <<>>),
             IF "causal_effect" \in DOMAIN data
             THEN [strength |-> dict_get_or(data.causal_effect, "strength", 0),
                   is_direct |-> dict_get_or(data.causal_effect, "is_direct", TRUE),
                   temporal_order |-> dict_get_or(data.causal_effect, "temporal_order", "unknown"),
                   mechanism |-> dict_get_or(data.causal_effect, "mechanism", <<>>)]
             ELSE <<>>,
             dict_get_or(data, "attributes", NoAttributes))

\* CausalGraph.to_dict; list(set(...)) of the metadata has no fixed order and is a set here
to_dict(g) ==
    [entities |-> [i \in 1..Len(g.entities) |-> entity_to_dict(g.entities[i])],
     relations |-> [i \in 1..Len(g.relations) |-> relation_to_dict(g.relations[i])],
     metadata |-> [num_entities |-> Len(g.entities), num_relations |-> Len(g.relations),
                   entity_types |-> {g.entities[i].entity_type : i \in 1..Len(g.entities)},
                   relation_types |->
                       {g.relations[i].relation_type : i \in 1..Len(g.relations)}]]

\* models.py 359-364: add_entity, then add_relation with validate_dag at its default, for
\* the documents from position i on; the first exception leaves the loop: [g, exc]
RECURSIVE load_from(_, _, _, _)
load_from(g, docs, i, entity_docs) ==
    IF i > Len(docs) THEN [g |-> g, exc |-> "none"]
    ELSE IF entity_docs THEN load_from(add_entity(g, entity_from_dict(docs[i])), docs, i + 1, TRUE)
    ELSE Bind(add_relation(g, relation_from_dict(docs[i]), TRUE), LAMBDA added :
             IF added.exc # "none" THEN added ELSE load_from(added.g, docs, i + 1, FALSE))

\* CausalGraph.from_dict: cls() is a strict graph
from_dict(data) ==
    load_from(load_from([entities |-> <<>>, relations |-> <<>>, edges |-> {},
                         strict_dag |-> TRUE],
                        dict_get_or(data, "entities", <<>>), 1, TRUE).g,
              dict_get_or(data, "relations", <<>>), 1, FALSE)

\* CausalGraph.get_causal_relations_only
get_causal_relations_only(g) == SelectSeq(g.relations, is_causal)

-----------------------------------------------------------------------------
(* difflib.SequenceMatcher(None, a, b).ratio(), as the fraction <<2*M, T>>  *)
(* (no junk; autojunk needs 200 characters).  Ranges are 1-based and       *)
(* inclusive.                                                              *)

\* length of the common run of a from i and b from j inside the given ranges
RECURSIVE common_run(_, _, _, _, _, _)
common_run(a, i, ahi, b, j, bhi) ==
    IF i <= ahi /\ j <= bhi /\ a[i] = b[j]
    THEN 1 + common_run(a, i + 1, ahi, b, j + 1, bhi)
    ELSE 0

\* SequenceMatcher.find_longest_match: <<i, j, k>>, the longest block, earliest in a, then in b
find_longest_match(a, alo, ahi, b, blo, bhi) ==
    LET pairs == (alo..ahi) \X (blo..bhi)
        len(p) == common_run(a, p[1], ahi, b, p[2], bhi)
        best == IF pairs = {} THEN 0
                ELSE LET m == CHOOSE p \in pairs : \A q \in pairs : len(q) <= len(p)
                     IN len(m)
        starts == {p \in pairs : len(p) = best}
        first == CHOOSE p \in starts :
                    \A q \in starts : p[1] < q[1] \/ (p[1] = q[1] /\ p[2] <= q[2])
    IN IF best = 0 THEN <<alo, blo, 0>> ELSE <<first[1], first[2], best>>

\* sum of the sizes of SequenceMatcher.get_matching_blocks: the longest block m, then the
\* blocks on its left and on its right
RECURSIVE matching_size(_, _, _, _, _, _)
matching_around(a, alo, ahi, b, blo, bhi, m) ==
    IF m[3] = 0 THEN 0
    ELSE m[3]
         + matching_size(a, alo, m[1] - 1, b, blo, m[2] - 1)
         + matching_size(a, m[1] + m[3], ahi, b, m[2] + m[3], bhi)

matching_size(a, alo, ahi, b, blo, bhi) ==
    matching_around(a, alo, ahi, b, blo, bhi, find_longest_match(a, alo, ahi, b, blo, bhi))

\* CkgAugmenter._similarity: the ratio 2.0*M/T as <<numerator, denominator>>; 1.0 when T = 0
_similarity(a, b) ==
    IF Len(a) + Len(b) = 0 THEN <<1, 1>>
    ELSE <<2 * matching_size(a, 1, Len(a), b, 1, Len(b)), Len(a) + Len(b)>>

\* x > y and x >= t/100 on such fractions
ratio_gt(x, y) == x[1] * y[2] > y[1] * x[2]
ratio_ge_hundredths(x, t) == 100 * x[1] >= t * x[2]

\* CkgAugmenter.__init__ (augmenter.py 53): similarity_threshold = 0.88
similarity_threshold == 88

-----------------------------------------------------------------------------
(* Augmenter helpers: augmenter.py 529-655, 706-748 *)

\* None, for an id
NoneId == <<>>

\* one provenance record; the keys a record does not carry are empty
Provenance(source, report_id, source_text, reason, rule_id, label) ==
    [source |-> source, report_id |-> report_id, source_text |-> source_text,
     reason |-> reason, rule_id |-> rule_id, label |-> label]

\* CkgAugmenter._build_provenance
_build_provenance(report_id, source_text) ==
    Provenance("", report_id, source_text, "", "", <<>>)

\* a variant of _relation_keys that finds no key
no_relation_keys(rels) == {}

\* CkgAugmenter._relation_keys
_relation_keys(rels) ==
    {<<rels[i].source_id, rels[i].relation_type, rels[i].target_id>> : i \in 1..Len(rels)}

\* CkgAugmenter._generate_entity_id: sha1 of "type:norm:report_id"
_generate_entity_id(entity, report_id) ==
    <<"aug", entity.entity_type, _normalize_label(entity.label), report_id>>

\* generate_feedback_entity_id: sha1 of "fb:type:norm"
generate_feedback_entity_id(entity_type, label) ==
    <<"fb", entity_type, join_split(str_lower(str_strip(label)))>>

\* augmenter.py 493: the key of existing_by_norm, by_norm and components
norm_key(entity) == _normalize_label(entity.label)

\* augmenter.py 533: the key of the entity index
index_key(entity) == <<entity.entity_type, _normalize_label(entity.label)>>

\* a dict built over the sequence ents, key -> e.id, last write wins; the key is index_key
\* when typed, norm_key otherwise
dict_of(ents, typed) ==
    LET key(e) == IF typed THEN index_key(e) ELSE norm_key(e)
        keys == {key(ents[i]) : i \in 1..Len(ents)}
    IN [k \in keys |->
          LET hits == {i \in 1..Len(ents) : key(ents[i]) = k}
          IN ents[CHOOSE i \in hits : \A j \in hits : j <= i].id]

\* d[k] = v
dict_put(d, k, v) == [x \in DOMAIN d \cup {k} |-> IF x = k THEN v ELSE d[x]]

\* d.get(k), None when absent
dict_get(d, k) == IF k \in DOMAIN d THEN d[k] ELSE NoneId

\* a variant of _build_entity_index that indexes nothing
empty_entity_index(ents) == [k \in {} |-> <<>>]

\* CkgAugmenter._build_entity_index
_build_entity_index(ents) == dict_of(ents, TRUE)

\* CkgAugmenter._index_entity
_index_entity(index, entity) == dict_put(index, index_key(entity), entity.id)

\* a variant of best_match in which a later entity with an equal score replaces the best
\* one, and entities of every kind are compared
RECURSIVE best_match_last_of_any_kind(_, _, _, _, _)
best_match_last_of_any_kind(entity, existing_entities, i, best_id, best_score) ==
    IF i > Len(existing_entities) THEN <<best_id, best_score>>
    ELSE Bind(_similarity(_normalize_label(entity.label),
                          _normalize_label(existing_entities[i].label)),
              LAMBDA score :
                  IF ~ratio_gt(best_score, score)
                  THEN best_match_last_of_any_kind(entity, existing_entities, i + 1,
                                                   existing_entities[i].id, score)
                  ELSE best_match_last_of_any_kind(entity, existing_entities, i + 1,
                                                   best_id, best_score))

\* the loop of _match_entity (augmenter.py 554-562) from position i on: <<best_id, best_score>>
RECURSIVE best_match(_, _, _, _, _)
best_match(entity, existing_entities, i, best_id, best_score) ==
    IF i > Len(existing_entities) THEN <<best_id, best_score>>
    ELSE IF existing_entities[i].entity_type # entity.entity_type
    THEN best_match(entity, existing_entities, i + 1, best_id, best_score)
    ELSE Bind(_similarity(_normalize_label(entity.label),
                          _normalize_label(existing_entities[i].label)),
              LAMBDA score :
                  IF ratio_gt(score, best_score)
                  THEN best_match(entity, existing_entities, i + 1,
                                  existing_entities[i].id, score)
                  ELSE best_match(entity, existing_entities, i + 1, best_id, best_score))

\* a variant of _match_entity that matches nothing
never_matched(entity, index, existing_entities, fuzzy_match) == NoneId

\* CkgAugmenter._match_entity: the exact index hit, else (fuzzy) the best match from the
\* threshold on
_match_entity(entity, index, existing_entities, fuzzy_match) ==
    IF dict_get(index, index_key(entity)) # NoneId THEN dict_get(index, index_key(entity))
    ELSE IF ~fuzzy_match THEN NoneId
    ELSE Bind(best_match(entity, existing_entities, 1, NoneId, <<0, 1>>), LAMBDA best :
             IF ratio_ge_hundredths(best[2], similarity_threshold) THEN best[1] ELSE NoneId)

\* a variant of _merge_entity that takes the description and the confidence of the candidate
merge_entity_overwriting(g, df, entity_id, new_entity, report_id) ==
    IF entity_pos(g, entity_id) = 0 THEN [g |-> g, diff |-> df]
    ELSE [g |-> [g EXCEPT
                   ![ "entities" ][entity_pos(g, entity_id)] =
                       [@ EXCEPT
                          !.description = new_entity.description,
                          !.confidence = new_entity.confidence,
                          !.attributes.provenance =
                              Append(@, _build_provenance(report_id, new_entity.source_text))]],
          diff |-> [df EXCEPT !.updated_entities = Append(@, entity_id)]]

\* a variant of _merge_entity that reports an update only when the description or the
\* confidence changed
merge_entity_when_changed(g, df, entity_id, new_entity, report_id) ==
    IF entity_pos(g, entity_id) = 0 THEN [g |-> g, diff |-> df]
    ELSE [g |-> [g EXCEPT
                   ![ "entities" ][entity_pos(g, entity_id)] =
                       [@ EXCEPT
                          !.description = IF @ = "" /\ new_entity.description # ""
                                          THEN new_entity.description ELSE @,
                          !.confidence = IF new_entity.confidence > @
                                         THEN new_entity.confidence ELSE @,
                          !.attributes.provenance =
                              Append(@, _build_provenance(report_id, new_entity.source_text))]],
          diff |-> IF \/ (g.entities[entity_pos(g, entity_id)].description = ""
                           /\ new_entity.description # "")
                      \/ new_entity.confidence > g.entities[entity_pos(g, entity_id)].confidence
                   THEN [df EXCEPT !.updated_entities = Append(@, entity_id)]
                   ELSE df]

\* CkgAugmenter._merge_entity: [g, diff] afterwards
_merge_entity(g, df, entity_id, new_entity, report_id) ==
    LET p == entity_pos(g, entity_id)
        existing == g.entities[p]
        merged ==
            [existing EXCEPT
               !.description = IF @ = "" /\ new_entity.description # ""
                               THEN new_entity.description ELSE @,
               !.confidence = IF new_entity.confidence > @ THEN new_entity.confidence ELSE @,
               !.attributes.provenance =
                   Append(@, _build_provenance(report_id, new_entity.source_text))]
    IN IF p = 0 THEN [g |-> g, diff |-> df]
       ELSE [g |-> [g EXCEPT !.entities[p] = merged],
             diff |-> [df EXCEPT !.updated_entities = Append(@, entity_id)]]

\* a variant of _merge_relation that joins every non-empty evidence
merge_relation_joining(g, df, key, new_relation, report_id) ==
    LET hits == {i \in 1..Len(g.relations) :
                    /\ g.relations[i].source_id = key[1]
                    /\ g.relations[i].target_id = key[3]
                    /\ g.relations[i].relation_type = key[2]}
        p == CHOOSE i \in hits : \A j \in hits : i <= j
    IN IF hits = {} THEN [g |-> g, diff |-> df]
       ELSE [g |-> [g EXCEPT
                      ![ "relations" ][p] =
                          [@ EXCEPT
                             !.confidence = IF new_relation.confidence > @
                                            THEN new_relation.confidence ELSE @,
                             !.evidence = IF new_relation.evidence = <<>> THEN @
                                          ELSE IF @ # <<>>
                                          THEN @ \o <<" ", "|", " ">> \o new_relation.evidence
                                          ELSE new_relation.evidence,
                             !.attributes.provenance =
                                 Append(@, _build_provenance(report_id,
                                                             new_relation.evidence))]],
             diff |-> [df EXCEPT !.updated_relations =
                          Append(@, [source |-> key[1], target |-> key[3], type |-> key[2]])]]

\* CkgAugmenter._merge_relation: [g, diff] afterwards
_merge_relation(g, df, key, new_relation, report_id) ==
    LET hits == {i \in 1..Len(g.relations) :
                    /\ g.relations[i].source_id = key[1]
                    /\ g.relations[i].target_id = key[3]
                    /\ g.relations[i].relation_type = key[2]}
        p == CHOOSE i \in hits : \A j \in hits : i <= j
        relation == g.relations[p]
        merged ==
            [relation EXCEPT
               !.confidence = IF new_relation.confidence > @ THEN new_relation.confidence ELSE @,
               !.evidence = IF new_relation.evidence # <<>> /\ ~str_contains(@, new_relation.evidence)
                            THEN (IF @ # <<>> THEN @ \o <<" ", "|", " ">> \o new_relation.evidence
                                  ELSE new_relation.evidence)
                            ELSE @,
               !.attributes.provenance =
                   Append(@, _build_provenance(report_id, new_relation.evidence))]
    IN IF hits = {} THEN [g |-> g, diff |-> df]
       ELSE [g |-> [g EXCEPT !.relations[p] = merged],
             diff |-> [df EXCEPT !.updated_relations =
                          Append(@, [source |-> key[1], target |-> key[3], type |-> key[2]])]]

-----------------------------------------------------------------------------
(* CkgAugmenter.augment, phase A: augmenter.py 87-160 *)

EmptyDict == [x \in {} |-> NoneId]

\* augmenter.py 69-80
EmptyDiff ==
    [added_entities |-> <<>>, updated_entities |-> <<>>, added_relations |-> <<>>,
     updated_relations |-> <<>>, skipped_relations |-> <<>>, conflicts |-> <<>>,
     feedback_added_entities |-> <<>>, feedback_skipped_existing |-> <<>>,
     feedback_added_relations |-> <<>>, feedback_skipped_existing_relations |-> <<>>]

\* the attributes dict {**_build_provenance(...), **extra}: flat report_id / source_text keys
flat_provenance(report_id, source_text, raw_label, metric_values) ==
    [provenance |-> <<>>, raw_label |-> raw_label, metric_values |-> metric_values,
     report_id |-> report_id, source_text |-> source_text]

\* augmenter.py 94-101: a Metric candidate gets its canonical label and the metric attributes
canonicalized(entity) ==
    IF entity.entity_type # "Metric" THEN entity
    ELSE Bind(_canonicalize_metric_label(entity.label), LAMBDA c :
             [entity EXCEPT
                !.label = IF c[1] # <<>> THEN c[1] ELSE @,
                !.attributes.raw_label = IF c[2].raw_label # <<>> THEN c[2].raw_label ELSE @,
                !.attributes.metric_values =
                    IF c[2].metric_values # <<>> THEN c[2].metric_values ELSE @])

\* augmenter.py 108-124: the entity added for an unmatched candidate
new_entity_of(entity, new_id, report_id) ==
    Entity(new_id, entity.entity_type, entity.label, entity.description,
           flat_provenance(report_id, entity.source_text,
                           IF entity.entity_type = "Metric"
                           THEN entity.attributes.raw_label ELSE <<>>,
                           IF entity.entity_type = "Metric"
                           THEN entity.attributes.metric_values ELSE <<>>),
           entity.confidence, entity.source_text)

\* augmenter.py 102-127: one canonicalized candidate is merged into the entity it matched
\* (103-106) or added and indexed (108-127)
resolve_entity(st, entity, existing_entities, report_id, fuzzy_match) ==
    Bind(_match_entity(entity, st.index, existing_entities, fuzzy_match), LAMBDA matched_id :
        IF matched_id # NoneId
        THEN Bind(_merge_entity(st.g, st.diff, matched_id, entity, report_id), LAMBDA merged :
                 [st EXCEPT !.id_map = dict_put(@, entity.id, matched_id),
                            !.g = merged.g,
                            !.diff = merged.diff])
        ELSE Bind(new_entity_of(entity, _generate_entity_id(entity, report_id), report_id),
                  LAMBDA new_entity :
                 [st EXCEPT !.id_map = dict_put(@, entity.id, new_entity.id),
                            !.g = add_entity(@, new_entity),
                            !.diff.added_entities = Append(@, new_entity.id),
                            !.index = _index_entity(@, new_entity)]))

\* augmenter.py 91-127: the loop over extracted_entities from position i on.
\* st = [g, diff, index, id_map]
RECURSIVE resolve_entities(_, _, _, _, _, _)
resolve_entities(st, extracted_entities, i, existing_entities, report_id, fuzzy_match) ==
    IF i > Len(extracted_entities) THEN st
    ELSE resolve_entities(
             resolve_entity(st, canonicalized(extracted_entities[i]), existing_entities,
                            report_id, fuzzy_match),
             extracted_entities, i + 1, existing_entities, report_id, fuzzy_match)

\* augmenter.py 144-152: the relation added for a new key
new_relation_of(relation, source_id, target_id, report_id) ==
    Relation(source_id, target_id, relation.relation_type, relation.confidence,
             relation.evidence, relation.causal_effect,
             flat_provenance(report_id, relation.evidence, <<>>, <<>>))

\* a variant of resolve_relation that records neither a skipped relation nor a conflict
resolve_relation_unrecorded(st, relation, source_id, target_id, report_id) ==
    IF source_id = NoneId \/ target_id = NoneId THEN st
    ELSE IF <<source_id, relation.relation_type, target_id>> \in st.keys
    THEN Bind(_merge_relation(st.g, st.diff, <<source_id, relation.relation_type, target_id>>,
                              relation, report_id),
              LAMBDA merged : [st EXCEPT !.g = merged.g, !.diff = merged.diff])
    ELSE Bind(add_relation(st.g, new_relation_of(relation, source_id, target_id, report_id),
                           TRUE),
              LAMBDA added :
             IF added.exc = "none"
             THEN [st EXCEPT
                     !.g = added.g,
                     !.keys = @ \cup {<<source_id, relation.relation_type, target_id>>},
                     !.diff.added_relations =
                         Append(@, [source |-> source_id, target |-> target_id,
                                    type |-> relation.relation_type])]
             ELSE st)

\* a variant of resolve_relation that also reports a skipped relation as a conflict
resolve_relation_skip_conflicts(st, relation, source_id, target_id, report_id) ==
    IF source_id = NoneId \/ target_id = NoneId
    THEN [st EXCEPT !.diff.skipped_relations =
                       Append(@, [source |-> relation.source_id, target |-> relation.target_id,
                                  type |-> relation.relation_type]),
                    !.diff.conflicts =
                       Append(@, [exc |-> "ValueError", source |-> relation.source_id,
                                  target |-> relation.target_id])]
    ELSE resolve_relation_unrecorded(st, relation, source_id, target_id, report_id)

\* augmenter.py 131-160 for one candidate relation whose endpoints map to source_id,
\* target_id: skipped (134-136), merged (140-142), or added, a refusal of add_relation
\* being recorded as a conflict with str(exc) (153-160)
resolve_relation(st, relation, source_id, target_id, report_id) ==
    IF source_id = NoneId \/ target_id = NoneId
    THEN [st EXCEPT !.diff.skipped_relations =
             Append(@, [source |-> relation.source_id, target |-> relation.target_id,
                        type |-> relation.relation_type])]
    ELSE IF <<source_id, relation.relation_type, target_id>> \in st.keys
    THEN Bind(_merge_relation(st.g, st.diff, <<source_id, relation.relation_type, target_id>>,
                              relation, report_id),
              LAMBDA merged : [st EXCEPT !.g = merged.g, !.diff = merged.diff])
    ELSE Bind(add_relation(st.g, new_relation_of(relation, source_id, target_id, report_id),
                           TRUE),
              LAMBDA added :
             IF added.exc = "none"
             THEN [st EXCEPT
                     !.g = added.g,
                     !.keys = @ \cup {<<source_id, relation.relation_type, target_id>>},
                     !.diff.added_relations =
                         Append(@, [source |-> source_id, target |-> target_id,
                                    type |-> relation.relation_type])]
             ELSE [st EXCEPT !.diff.conflicts =
                      Append(@, [exc |-> added.exc, source |-> source_id,
                                 target |-> target_id])])

\* augmenter.py 130-160: the loop over extracted_relations from position i on.
\* st = [g, diff, keys], keys being existing_relation_keys
RECURSIVE resolve_relations(_, _, _, _, _)
resolve_relations(st, extracted_relations, i, idm, report_id) ==
    IF i > Len(extracted_relations) THEN st
    ELSE resolve_relations(
             resolve_relation(st, extracted_relations[i],
                              dict_get(idm, extracted_relations[i].source_id),
                              dict_get(idm, extracted_relations[i].target_id), report_id),
             extracted_relations, i + 1, idm, report_id)

-----------------------------------------------------------------------------
(* Feedback payload: augmenter.py 186-196, 706-748.  A payload is the      *)
(* per_case mapping as a sequence of [case_id, dimensions], dimensions     *)
(* being the sequence of the missing_elements lists; <<>> is no feedback.  *)

\* the stable de-duplication loop of augmenter.py 168-174 and 721-730
RECURSIVE stable_dedup(_, _, _)
stable_dedup(seq, i, seen) ==
    IF i > Len(seq) THEN <<>>
    ELSE IF seq[i] \in seen THEN stable_dedup(seq, i + 1, seen)
    ELSE <<seq[i]>> \o stable_dedup(seq, i + 1, seen \cup {seq[i]})

RECURSIVE flatten(_, _)
flatten(seqs, i) == IF i > Len(seqs) THEN <<>> ELSE seqs[i] \o flatten(seqs, i + 1)

\* extract_missing_elements
extract_missing_elements(feedback, case_filter) ==
    LET wanted == IF case_filter = "all" THEN feedback
                  ELSE SelectSeq(feedback, LAMBDA c : c.case_id = case_filter)
        missing == flatten([k \in 1..Len(wanted) |-> flatten(wanted[k].dimensions, 1)], 1)
        keyed == [k \in 1..Len(missing) |-> str_strip(missing[k])]
    IN stable_dedup(SelectSeq(keyed, LAMBDA m : m # <<>>), 1, {})

\* CkgAugmenter._normalize_feedback_missing_element: a label naming the throttling term
\* (u62C9 u6A94, or "frequency throttling") becomes the term itself
_normalize_feedback_missing_element(m) ==
    Bind(str_strip(m), LAMBDA t :
        IF t = <<>> THEN <<>>
        ELSE IF \/ str_contains(t, <<"u62C9", "u6A94">>)
                \/ str_contains(str_lower(t),
                                <<"f","r","e","q","u","e","n","c","y"," ",
                                  "t","h","r","o","t","t","l","i","n","g">>)
        THEN <<"u62C9", "u6A94">>
        ELSE t)

\* augmenter.py 164-174: missing_norm_dedup, each extracted element normalised, the empty
\* ones dropped, first occurrence wins
missing_norm_dedup(feedback, case_filter) ==
    Bind(extract_missing_elements(feedback, case_filter), LAMBDA missing :
        stable_dedup(
            SelectSeq([k \in 1..Len(missing) |->
                          _normalize_feedback_missing_element(missing[k])],
                      LAMBDA m : m # <<>>), 1, {}))

\* infer_feedback_entity_type
infer_feedback_entity_type(label) ==
    Bind(str_lower(str_strip(label)), LAMBDA norm :
        IF str_startswith(norm, <<"s","w","_","r","e","q">>) THEN "Observation"
        ELSE IF \/ str_contains(norm, <<"v","c","o","r","e">>)
                \/ str_contains(norm, <<"d","d","r">>)
                \/ str_contains(norm, <<"%">>)
        THEN "Metric"
        ELSE "Observation")

-----------------------------------------------------------------------------
(* Phase B, entities: CkgAugmenter._ensure_missing_entities (478-527) *)

\* attributes={"provenance": [record]}
listed_provenance(record, raw_label, metric_values) ==
    [provenance |-> <<record>>, raw_label |-> raw_label, metric_values |-> metric_values,
     report_id |-> <<>>, source_text |-> <<>>]

\* generate_feedback_entity_id, salted with f"{label}:{report_id}" when the id is taken
fresh_feedback_id(g, entity_type, label, report_id) ==
    IF generate_feedback_entity_id(entity_type, label) \in entity_ids(g)
    THEN generate_feedback_entity_id(entity_type, label \o <<":">> \o report_id)
    ELSE generate_feedback_entity_id(entity_type, label)

\* augmenter.py 504-524: the entity made for a missing label
missing_entity_of(g, entity_type, label, report_id) ==
    Entity(fresh_feedback_id(g, entity_type, label, report_id), entity_type, label, "",
           listed_provenance(
               Provenance("closed_loop_feedback", report_id, <<>>,
                          "missing_elements", "", label), <<>>, <<>>),
           100, <<>>)

\* one iteration of the loop of augmenter.py 495-527: an empty or known normalised label
\* is skipped, any other gets an entity of the inferred type, added and recorded (525-527)
ensure_missing_entity(st, label, report_id) ==
    Bind(_normalize_label(label), LAMBDA norm :
        IF norm = <<>> THEN st
        ELSE IF norm \in DOMAIN st.existing_by_norm
        THEN [st EXCEPT !.diff.feedback_skipped_existing =
                 Append(@, st.existing_by_norm[norm])]
        ELSE Bind(missing_entity_of(st.g, infer_feedback_entity_type(label), label, report_id),
                  LAMBDA new_entity :
                 [st EXCEPT !.g = add_entity(@, new_entity),
                            !.diff.feedback_added_entities = Append(@, new_entity.id),
                            !.existing_by_norm = dict_put(@, norm, new_entity.id)]))

\* the loop of augmenter.py 495-527 from position i on.  st = [g, diff, existing_by_norm]
RECURSIVE ensure_missing_entities_loop(_, _, _, _)
ensure_missing_entities_loop(st, missing_labels, i, report_id) ==
    IF i > Len(missing_labels) THEN st
    ELSE ensure_missing_entities_loop(ensure_missing_entity(st, missing_labels[i], report_id),
                                      missing_labels, i + 1, report_id)

\* CkgAugmenter._ensure_missing_entities: [g, diff] afterwards
_ensure_missing_entities(g, df, missing_labels, report_id) ==
    IF missing_labels = <<>> THEN [g |-> g, diff |-> df]
    ELSE Bind(ensure_missing_entities_loop(
                  [g |-> g, diff |-> df, existing_by_norm |-> dict_of(g.entities, FALSE)],
                  missing_labels, 1, report_id),
              LAMBDA r : [g |-> r.g, diff |-> r.diff])

-----------------------------------------------------------------------------
(* Phase B, relations: CkgAugmenter._ensure_missing_relations (198-405).   *)
(* st = [g, diff, keys, ents, by_norm, exc, cm_target, powerhal_target,    *)
(* ddr_target, cpu_target]: the graph, the diff and the function's locals  *)
(* existing_relation_keys, entities, by_norm and the four targets; exc is  *)
(* the exception that left the function, "none" while it runs.             *)

\* the first entity of ents, of type prefer_type if that is given, whose lower-cased label
\* contains t; None if there is none
first_containing(ents, t, prefer_type) ==
    LET hits == {i \in 1..Len(ents) :
                    /\ (prefer_type = "" \/ ents[i].entity_type = prefer_type)
                    /\ str_contains(str_lower(ents[i].label), t)}
    IN IF hits = {} THEN NoneId
       ELSE ents[CHOOSE i \in hits : \A j \in hits : i <= j].id

\* _find_best_id_contains (226-247); prefer_type "" is None
_find_best_id_contains(st, token, prefer_type) ==
    Bind(str_lower(str_strip(token)), LAMBDA t :
        IF t = <<>> THEN NoneId
        ELSE IF dict_get(st.by_norm, _normalize_label(token)) # NoneId
        THEN dict_get(st.by_norm, _normalize_label(token))
        ELSE IF first_containing(st.ents, t, prefer_type) # NoneId
        THEN first_containing(st.ents, t, prefer_type)
        ELSE first_containing(st.ents, t, ""))

\* the common body of _ensure_component / _ensure_observation / _ensure_metric:
\* [st |-> the locals afterwards, id |-> the id returned].  A label whose normalised form
\* is in by_norm returns that id; any other gets an entity, added to the graph, to by_norm
\* and to entities.
ensure_endpoint(st, entity_type, label, reason, raw_label, metric_values, report_id) ==
    Bind(_normalize_label(label), LAMBDA norm :
        IF norm \in DOMAIN st.by_norm THEN [st |-> st, id |-> st.by_norm[norm]]
        ELSE Bind(Entity(fresh_feedback_id(st.g, entity_type, label, report_id),
                         entity_type, label, "",
                         listed_provenance(
                             Provenance("closed_loop_feedback", report_id, <<>>, reason,
                                        "", <<>>),
                             raw_label, metric_values),
                         100, <<>>),
                  LAMBDA new_entity :
                 [st |-> [st EXCEPT !.g = add_entity(@, new_entity),
                                    !.by_norm = dict_put(@, norm, new_entity.id),
                                    !.ents = Append(@, new_entity)],
                  id |-> new_entity.id]))

\* _ensure_component (249-269)
_ensure_component(st, label, report_id) ==
    ensure_endpoint(st, "Component", label, "missing_relation_target", <<>>, <<>>, report_id)

\* _ensure_observation (271-291)
_ensure_observation(st, label, report_id) ==
    ensure_endpoint(st, "Observation", label, "missing_relation_source", <<>>, <<>>, report_id)

\* _ensure_metric (293-317)
_ensure_metric(st, label, report_id) ==
    Bind(_canonicalize_metric_label(label), LAMBDA c :
        ensure_endpoint(st, "Metric", c[1], "missing_metric",
                        c[2].raw_label, c[2].metric_values, report_id))

\* the confidence every feedback relation gets (augmenter.py 330)
feedback_confidence == 30

\* a variant of feedback_relation_of that leaves the confidence at Relation's default
feedback_relation_default_confidence(source_id, rel_type, target_id, rule_id, report_id) ==
    Relation(source_id, target_id, rel_type, 100,
             <<"closed_loop_feedback_relation:", rule_id>>, <<>>,
             listed_provenance(
                 Provenance("closed_loop_feedback_relation", report_id, <<>>,
                            "missing_elements", rule_id, <<>>), <<>>, <<>>))

\* augmenter.py 326-343: the relation a feedback rule makes
feedback_relation_of(source_id, rel_type, target_id, rule_id, report_id) ==
    Relation(source_id, target_id, rel_type, feedback_confidence,
             <<"closed_loop_feedback_relation:", rule_id>>, <<>>,
             listed_provenance(
                 Provenance("closed_loop_feedback_relation", report_id, <<>>,
                            "missing_elements", rule_id, <<>>), <<>>, <<>>))

\* a variant of _add_relation that reinforces a relation whose key is stored: its
\* confidence becomes 1.0
add_relation_reinforcing(st, source_id, rel_type, target_id, rule_id, report_id) ==
    IF <<source_id, rel_type, target_id>> \in st.keys
    THEN [st EXCEPT
            !.g.relations =
                [q \in 1..Len(@) |->
                    IF /\ @[q].source_id = source_id
                       /\ @[q].relation_type = rel_type
                       /\ @[q].target_id = target_id
                    THEN [@[q] EXCEPT !.confidence = 100] ELSE @[q]]]
    ELSE Bind(add_relation(st.g, feedback_relation_of(source_id, rel_type, target_id, rule_id,
                                                      report_id), FALSE),
              LAMBDA added :
                 IF added.exc # "none" THEN [st EXCEPT !.exc = added.exc]
                 ELSE [st EXCEPT
                         !.g = added.g,
                         !.keys = @ \cup {<<source_id, rel_type, target_id>>},
                         !.diff.feedback_added_relations =
                             Append(@, [source |-> source_id, target |-> target_id,
                                        type |-> rel_type])])

\* _add_relation (319-346): the locals afterwards.  A known key is recorded as skipped;
\* any other relation goes to graph.add_relation(rel, validate_dag=False), whose exception
\* leaves the function
_add_relation(st, source_id, rel_type, target_id, rule_id, report_id) ==
    IF st.exc # "none" THEN st
    ELSE IF <<source_id, rel_type, target_id>> \in st.keys
    THEN [st EXCEPT !.diff.feedback_skipped_existing_relations =
             Append(@, [source |-> source_id, target |-> target_id, type |-> rel_type])]
    ELSE Bind(add_relation(st.g,
                           feedback_relation_of(source_id, rel_type, target_id, rule_id,
                                                report_id),
                           FALSE),
              LAMBDA added :
             IF added.exc # "none" THEN [st EXCEPT !.exc = added.exc]
             ELSE [st EXCEPT !.g = added.g,
                             !.keys = @ \cup {<<source_id, rel_type, target_id>>},
                             !.diff.feedback_added_relations =
                                 Append(@, [source |-> source_id, target |-> target_id,
                                            type |-> rel_type])])

\* "found or _ensure_component(label)": [st, id]
found_or_component(st, found, label, report_id) ==
    IF found # NoneId THEN [st |-> st, id |-> found]
    ELSE _ensure_component(st, label, report_id)

\* augmenter.py 349-356: the four targets are resolved before any rule runs; ddr_target
\* and cpu_target are None when nothing is found
resolve_targets(st, report_id) ==
    Bind(found_or_component(
             st,
             IF _find_best_id_contains(st, <<"C","M">>, "RootCause") # NoneId
             THEN _find_best_id_contains(st, <<"C","M">>, "RootCause")
             ELSE _find_best_id_contains(st, <<"C","M">>, ""),
             <<"C","M">>, report_id),
         LAMBDA cm :
    Bind(found_or_component(
             cm.st,
             _find_best_id_contains(cm.st, <<"P","o","w","e","r","H","a","l">>, "Component"),
             <<"P","o","w","e","r","H","a","l">>, report_id),
         LAMBDA powerhal :
        [powerhal.st EXCEPT
            !.cm_target = cm.id,
            !.powerhal_target = powerhal.id,
            !.ddr_target = _find_best_id_contains(powerhal.st, <<"D","D","R">>, "Component"),
            !.cpu_target = _find_best_id_contains(powerhal.st, <<"C","P","U">>, "Component")]))

\* augmenter.py 398-402: resolve each token of a chain from position i on; [st, ids]
RECURSIVE chain_ids(_, _, _, _, _)
chain_ids(st, ids, parts, i, report_id) ==
    IF i > Len(parts) THEN [st |-> st, ids |-> ids]
    ELSE Bind(found_or_component(st, _find_best_id_contains(st, parts[i], ""), parts[i],
                                 report_id),
              LAMBDA r : chain_ids(r.st, Append(ids, r.id), parts, i + 1, report_id))

\* augmenter.py 403-404: link the consecutive pairs of ids
RECURSIVE chain_links(_, _, _, _)
chain_links(st, ids, i, report_id) ==
    IF i + 1 > Len(ids) THEN st
    ELSE chain_links(_add_relation(st, ids[i], "LEADS_TO", ids[i + 1], "chain_leads_to", report_id),
                     ids, i + 1, report_id)

\* rules A and B (362-376): the ensured endpoint r INDICATES the target
indicates(r, target_id, rule_id, report_id) ==
    _add_relation(r.st, r.id, "INDICATES", target_id, rule_id, report_id)

\* rule C (378-390), met being what _ensure_metric gave and target the name of the local
\* ("ddr_target", "cpu_target"): the component of that label is made when the target is None
metric_indicates(met, target, label, rule_id, report_id) ==
    IF met.st[target] # NoneId
    THEN _add_relation(met.st, met.id, "INDICATES", met.st[target], rule_id, report_id)
    ELSE Bind(_ensure_component(met.st, label, report_id), LAMBDA made :
             _add_relation([made.st EXCEPT ![target] = made.id], met.id, "INDICATES",
                           made.id, rule_id, report_id))

\* rule D (392-405): the non-empty stripped pieces of m, split at the arrow, are resolved
\* and linked when there are two or more
chain_rule(st, m, report_id) ==
    Bind(split_parts(m, IF str_contains(m, <<"u2192">>) THEN <<"u2192">> ELSE <<"-", ">">>),
         LAMBDA parts :
        IF Len(parts) >= 2
        THEN Bind(chain_ids(st, <<>>, parts, 1, report_id), LAMBDA chain :
                 chain_links(chain.st, chain.ids, 1, report_id))
        ELSE st)

\* one iteration of the rule dispatch loop (359-405) for the missing label m.  The
\* comparisons of m.strip().upper() are made on the lower-cased text, which is the same
\* test on the characters labels are written in.
apply_rule(st, m, report_id) ==
    Bind(str_lower(m), LAMBDA low :
    Bind(str_lower(str_strip(m)), LAMBDA key :
        IF st.exc # "none" THEN st
        ELSE IF key = <<"s","w","_","r","e","q","2">>
        THEN indicates(_ensure_observation(st, <<"S","W","_","R","E","Q","2">>, report_id),
                       st.cm_target, "sw_req2_indicates_cm", report_id)
        ELSE IF key = <<"s","w","_","r","e","q","3">>
        THEN indicates(_ensure_observation(st, <<"S","W","_","R","E","Q","3">>, report_id),
                       st.powerhal_target, "sw_req3_indicates_powerhal", report_id)
        ELSE IF \/ str_contains(m, <<"u62C9", "u6A94">>)
                \/ str_contains(low, <<"f","r","e","q","u","e","n","c","y"," ",
                                       "t","h","r","o","t","t","l","i","n","g">>)
        THEN indicates(_ensure_observation(st, <<"u62C9", "u6A94">>, report_id),
                       st.cm_target, "throttling_indicates_cm", report_id)
        ELSE IF \/ str_contains(low, <<"d","d","r","5","4","6","0">>)
                \/ str_contains(low, <<"d","d","r","6","3","7","0">>)
        THEN metric_indicates(_ensure_metric(st, m, report_id), "ddr_target",
                              <<"D","D","R">>, "ddr_metric_indicates_ddr", report_id)
        ELSE IF key = <<"c","p","u"," ","f","r","e","q","u","e","n","c","i","e","s">>
        THEN metric_indicates(
                 _ensure_metric(st, <<"C","P","U"," ","f","r","e","q","u","e","n","c","i","e","s">>,
                                report_id),
                 "cpu_target", <<"C","P","U">>, "cpu_freq_indicates_cpu", report_id)
        ELSE IF str_contains(m, <<"-", ">">>) \/ str_contains(m, <<"u2192">>)
        THEN chain_rule(st, m, report_id)
        ELSE st))

RECURSIVE apply_rules(_, _, _, _)
apply_rules(st, missing_labels, i, report_id) ==
    IF i > Len(missing_labels) THEN st
    ELSE apply_rules(apply_rule(st, missing_labels[i], report_id), missing_labels, i + 1, report_id)

\* CkgAugmenter._ensure_missing_relations: [g, diff, exc] afterwards.  The locals
\* (augmenter.py 220-224) are existing_relation_keys, entities and by_norm.
_ensure_missing_relations(g, df, missing_labels, report_id) ==
    IF missing_labels = <<>> THEN [g |-> g, diff |-> df, exc |-> "none"]
    ELSE Bind(apply_rules(
                  resolve_targets(
                      [g |-> g, diff |-> df, keys |-> _relation_keys(g.relations),
                       ents |-> g.entities, by_norm |-> dict_of(g.entities, FALSE),
                       exc |-> "none", cm_target |-> NoneId, powerhal_target |-> NoneId,
                       ddr_target |-> NoneId, cpu_target |-> NoneId],
                      report_id),
                  missing_labels, 1, report_id),
              LAMBDA r : [g |-> r.g, diff |-> r.diff, exc |-> r.exc])

-----------------------------------------------------------------------------
(* Phase C: CkgAugmenter._autolink_metrics_to_components (406-476) *)

\* _choose_component (427-438): the first of vcore, ddr, cpu, mmdvfs that is in
\* hay = f"{label} {source_text}".lower() and in components; None when there is none
_choose_component(metric, components) ==
    Bind(str_lower(metric.label \o <<" ">> \o metric.source_text), LAMBDA hay :
    Bind(SelectSeq(<< <<"v","c","o","r","e">>, <<"d","d","r">>, <<"c","p","u">>,
                      <<"m","m","d","v","f","s">> >>,
                   LAMBDA k : str_contains(hay, k) /\ k \in DOMAIN components),
         LAMBDA hits : IF hits = <<>> THEN NoneId ELSE components[hits[1]]))

\* the confidence of an autolink edge (augmenter.py 456)
autolink_confidence == 30

\* augmenter.py 452-468: the relation an autolink makes
autolink_relation_of(source_id, target_component_id, report_id) ==
    Relation(source_id, target_component_id, "INDICATES", autolink_confidence,
             <<"autolink_rule: metric indicates component">>, <<>>,
             listed_provenance(
                 Provenance("autolink_rule", report_id, <<>>,
                            "connect_isolated_metric_to_component", "", <<>>),
                 <<>>, <<>>))

\* one iteration of the loop of augmenter.py 440-476: a metric with a chosen component and
\* a new key gets the relation by graph.add_relation(rel, validate_dag=False), whose
\* exception is recorded as a conflict (469-476)
autolink_entity(st, e, components, report_id) ==
    IF e.entity_type # "Metric" THEN st
    ELSE Bind(_choose_component(e, components), LAMBDA target_component_id :
        IF target_component_id = NoneId THEN st
        ELSE IF <<e.id, "INDICATES", target_component_id>> \in st.keys THEN st
        ELSE Bind(add_relation(st.g, autolink_relation_of(e.id, target_component_id, report_id),
                               FALSE),
                  LAMBDA added :
                 IF added.exc = "none"
                 THEN [st EXCEPT
                         !.g = added.g,
                         !.keys = @ \cup {<<e.id, "INDICATES", target_component_id>>},
                         !.diff.added_relations =
                             Append(@, [source |-> e.id, target |-> target_component_id,
                                        type |-> "INDICATES"])]
                 ELSE [st EXCEPT !.diff.conflicts =
                          Append(@, [exc |-> added.exc, source |-> e.id,
                                     target |-> target_component_id])]))

\* the loop of augmenter.py 440-476 over the entities ents from position i on.
\* st = [g, diff, keys]
RECURSIVE autolink_loop(_, _, _, _, _)
autolink_loop(st, ents, i, components, report_id) ==
    IF i > Len(ents) THEN st
    ELSE autolink_loop(autolink_entity(st, ents[i], components, report_id),
                       ents, i + 1, components, report_id)

\* CkgAugmenter._autolink_metrics_to_components: [g, diff] afterwards.  components
\* (415-420) indexes the Component entities that have a normalised label.
_autolink_metrics_to_components(g, df, report_id) ==
    Bind(SelectSeq(g.entities, LAMBDA e : e.entity_type = "Component" /\ norm_key(e) # <<>>),
         LAMBDA component_entities :
        IF component_entities = <<>> THEN [g |-> g, diff |-> df]
        ELSE Bind(autolink_loop([g |-> g, diff |-> df, keys |-> _relation_keys(g.relations)],
                                g.entities, 1, dict_of(component_entities, FALSE),
                                report_id),
                  LAMBDA r : [g |-> r.g, diff |-> r.diff]))

-----------------------------------------------------------------------------
(* CkgAugmenter.augment (60-183) *)

\* phase A (87-160), entities then relations: [g, diff, id_map]
phaseA(g, extracted_entities, extracted_relations, report_id, fuzzy_match) ==
    Bind(resolve_entities(
             [g |-> g, diff |-> EmptyDiff,
              index |-> _build_entity_index(g.entities), id_map |-> EmptyDict],
             extracted_entities, 1, g.entities, report_id, fuzzy_match),
         LAMBDA a1 :
    Bind(resolve_relations(
             [g |-> a1.g, diff |-> a1.diff, keys |-> _relation_keys(a1.g.relations)],
             extracted_relations, 1, a1.id_map, report_id),
         LAMBDA a2 : [g |-> a2.g, diff |-> a2.diff, id_map |-> a1.id_map]))

\* phase B (162-177), a being the outcome of phase A: [g, diff, exc]
phaseB(a, feedback, case_filter, report_id) ==
    IF feedback = <<>> THEN [g |-> a.g, diff |-> a.diff, exc |-> "none"]
    ELSE Bind(missing_norm_dedup(feedback, case_filter), LAMBDA missing :
         Bind(_ensure_missing_entities(a.g, a.diff, missing, report_id), LAMBDA b1 :
             _ensure_missing_relations(b1.g, b1.diff, missing, report_id)))

\* phase C (179-181), not reached when phase B raised: [g, diff]
phaseC(b, report_id) ==
    IF b.exc # "none" THEN [g |-> b.g, diff |-> b.diff]
    ELSE _autolink_metrics_to_components(b.g, b.diff, report_id)

\* [g, diff, id_map, marks, exc]: the graph and the diff afterwards, the id map of phase A,
\* the number of entities and relations after each phase, the causal relations after phases
\* A and B, and the exception that left the call
augment(g, extracted_entities, extracted_relations, report_id, feedback, case_filter, fuzzy_match) ==
    Bind(phaseA(g, extracted_entities, extracted_relations, report_id, fuzzy_match),
         LAMBDA a :
    Bind(phaseB(a, feedback, case_filter, report_id), LAMBDA b :
    Bind(phaseC(b, report_id), LAMBDA c :
        [g |-> c.g, diff |-> c.diff, id_map |-> a.id_map, exc |-> b.exc,
         marks |-> [ent0 |-> Len(g.entities), rel0 |-> Len(g.relations),
                    entA |-> Len(a.g.entities), relA |-> Len(a.g.relations),
                    entB |-> Len(b.g.entities), relB |-> Len(b.g.relations),
                    entC |-> Len(c.g.entities), relC |-> Len(c.g.relations),
                    causalA |-> get_causal_relations_only(a.g),
                    causalB |-> get_causal_relations_only(b.g)]])))

-----------------------------------------------------------------------------
(* The closed-loop runners: orchastrator/orchestrator.py, case_loop.py,      *)
(* feedback.py, feedback_adapter.py.  Scores and thresholds are integer      *)
(* hundredths.  A run folder is the record [runner, config, cases, summary]: *)
(* cases maps an iterations directory (its case tag, "iterations" for run()) *)
(* to its iteration folders in order, each [iter_num, feedback] with the     *)
(* feedback documents written into it; summary holds the documents written  *)
(* to run_summary.json, one per write.  The external commands of the real    *)
(* mode are taken to succeed and their judge reports are inputs.            *)

\* int(round(x)) of a score x = h / 100: Python rounds halves to the even integer
int_round(h) ==
    IF h % 100 < 50 THEN h \div 100
    ELSE IF h % 100 > 50 THEN h \div 100 + 1
    ELSE IF (h \div 100) % 2 = 0 THEN h \div 100 ELSE h \div 100 + 1

\* max(0.0, x)
max0(x) == IF x < 0 THEN 0 ELSE x

\* feedback._find_root_cause_accuracy: the score of the first dimension of that name
_find_root_cause_accuracy(case_result) ==
    LET hits == {i \in 1..Len(case_result.dimensions) :
                    case_result.dimensions[i].name = "Root Cause Accuracy"}
    IN IF hits = {} THEN 0
       ELSE case_result.dimensions[CHOOSE i \in hits : \A j \in hits : i <= j].score

\* sum(xs)
RECURSIVE sum(_)
sum(xs) == IF xs = <<>> THEN 0 ELSE Head(xs) + sum(Tail(xs))

\* round(sum(xs) / len(xs), 2) if xs else 0.0, in hundredths, halves to the even one
mean2(xs) ==
    IF xs = <<>> THEN 0
    ELSE IF 2 * (sum(xs) % Len(xs)) < Len(xs) THEN sum(xs) \div Len(xs)
    ELSE IF 2 * (sum(xs) % Len(xs)) > Len(xs) THEN sum(xs) \div Len(xs) + 1
    ELSE IF (sum(xs) \div Len(xs)) % 2 = 0 THEN sum(xs) \div Len(xs)
    ELSE sum(xs) \div Len(xs) + 1

\* orchastrator.models.Feedback, without per_case
Feedback(run_id, iter_num, average_score, accuracy_score, stop_reached) ==
    [run_id |-> run_id, iter_num |-> iter_num, average_score |-> average_score,
     accuracy_score |-> accuracy_score, stop_reached |-> stop_reached]

\* feedback.build_feedback_from_judge_report on a report with these results
build_feedback_from_judge_report(results, run_id, iter_num, stop) ==
    Bind(mean2([i \in 1..Len(results) |-> results[i].composite_score]), LAMBDA avg_score :
    Bind(mean2([i \in 1..Len(results) |-> _find_root_cause_accuracy(results[i])]),
         LAMBDA avg_acc :
        Feedback(run_id, iter_num, avg_score, avg_acc,
                 avg_acc >= stop.min_accuracy /\ avg_score > stop.min_overall)))

\* feedback.build_case_feedback_from_judge_report
build_case_feedback_from_judge_report(results, run_id, iter_num, stop, case_id) ==
    LET hits == {i \in 1..Len(results) : results[i].case_name = case_id}
        match == results[CHOOSE i \in hits : \A j \in hits : i <= j]
    IN IF hits = {} THEN Feedback(run_id, iter_num, 0, 0, FALSE)
       ELSE Feedback(run_id, iter_num, match.composite_score,
                     _find_root_cause_accuracy(match),
                     /\ _find_root_cause_accuracy(match) >= stop.min_accuracy
                     /\ match.composite_score > stop.min_overall)

\* feedback_adapter.judge_result_to_feedback, stop_chain_completeness at its default 0.0:
\* the accuracy is the score of the last dimension named Root Cause Accuracy
judge_result_to_feedback(judge_result, run_id, iter_num, case_id, stop_accuracy, stop_overall) ==
    LET hits == {i \in 1..Len(judge_result.dimensions) :
                    judge_result.dimensions[i].name = "Root Cause Accuracy"}
        accuracy == IF hits = {} THEN 0
                    ELSE judge_result.dimensions[CHOOSE i \in hits :
                                                    \A j \in hits : j <= i].score
    IN Feedback(run_id, iter_num, judge_result.composite_score, accuracy,
                accuracy >= stop_accuracy /\ judge_result.composite_score >= stop_overall)

\* one result of a judge report
JudgeResult(case_name, composite_score, accuracy) ==
    [case_name |-> case_name, composite_score |-> composite_score,
     dimensions |-> <<[name |-> "Root Cause Accuracy", score |-> accuracy]>>]

\* an iteration folder with the feedback documents written into it
IterationFolder(iter_num, feedback) == [iter_num |-> iter_num, feedback |-> feedback]

\* the entries of run_summary["iterations"] for the iteration folders written
summary_entries(iterations) ==
    [k \in 1..Len(iterations) |->
        [iter |-> iterations[k].iter_num,
         average_score |-> iterations[k].feedback[1].average_score,
         accuracy_score |-> iterations[k].feedback[1].accuracy_score,
         stop_reached |-> iterations[k].feedback[1].stop_reached]]

\* orchestrator.py 77-106: the loop of run() from iter_num on: [iterations, exc]; the
\* dry-run judge report gives every case 8.5 and the accuracy 9
RECURSIVE run_iterations(_, _, _)
run_iterations(config, iter_num, iterations) ==
    IF iter_num > config.max_iters THEN [iterations |-> iterations, exc |-> "none"]
    ELSE IF ~config.dry_run
    THEN [iterations |-> Append(iterations, IterationFolder(iter_num, <<>>)),
          exc |-> "NotImplementedError"]
    ELSE Bind(build_feedback_from_judge_report(
                  [i \in 1..Len(config.cases) |-> JudgeResult(config.cases[i].case_id, 850, 900)],
                  config.run_id, iter_num, config.stop),
              LAMBDA fb :
                 IF fb.stop_reached
                 THEN [iterations |-> Append(iterations, IterationFolder(iter_num, <<fb>>)),
                       exc |-> "none"]
                 ELSE run_iterations(config, iter_num + 1,
                                     Append(iterations, IterationFolder(iter_num, <<fb>>))))

\* orchestrator.py 152-202: the loop of run_per_case for one case from iter_num on; judge
\* is the judge report of each iteration of the real mode
RECURSIVE case_iterations(_, _, _, _, _)
case_iterations(config, case, judge, iter_num, iterations) ==
    IF iter_num > (IF config.max_iters_per_case # 0 THEN config.max_iters_per_case
                   ELSE config.max_iters)
    THEN iterations
    ELSE Bind(build_case_feedback_from_judge_report(
                  IF config.dry_run THEN <<JudgeResult(case.case_id, 850, 900)>>
                  ELSE judge[iter_num],
                  config.run_id, iter_num, config.stop, case.case_id),
              LAMBDA fb :
                 IF fb.stop_reached
                 THEN Append(iterations, IterationFolder(iter_num, <<fb>>))
                 ELSE case_iterations(config, case, judge, iter_num + 1,
                                      Append(iterations, IterationFolder(iter_num, <<fb>>))))

\* f"case_{case_num:02d}"
case_tag(case_num) == <<"case", case_num>>

\* the feedback documents of the iteration folders of the cases, in the order written
feedbacks_of(cases, tags) ==
    flatten([t \in 1..Len(tags) |->
                [k \in 1..Len(cases[tags[t]]) |-> cases[tags[t]][k].feedback[1]]], 1)

\* ClosedLoopOrchestrator.run_per_case(config): [fs, exc, feedbacks], fs being the run
\* folders afterwards
run_per_case(fs, config, judge) ==
    IF config.run_id \in DOMAIN fs
    THEN [fs |-> fs, exc |-> "FileExistsError", feedbacks |-> <<>>]
    ELSE Bind([t \in {case_tag(config.cases[i].case_num) : i \in 1..Len(config.cases)} |->
                  case_iterations(
                      config,
                      config.cases[CHOOSE i \in 1..Len(config.cases) :
                                      case_tag(config.cases[i].case_num) = t],
                      judge, 1, <<>>)],
              LAMBDA cases :
                 [fs |-> dict_put(fs, config.run_id,
                                  [runner |-> "run_per_case", config |-> config,
                                   cases |-> cases,
                                   summary |-> <<[t \in DOMAIN cases |->
                                                    summary_entries(cases[t])]>>]),
                  exc |-> "none",
                  feedbacks |-> feedbacks_of(
                      cases,
                      [i \in 1..Len(config.cases) |-> case_tag(config.cases[i].case_num)])])

\* ClosedLoopOrchestrator.run(config): [fs, exc, feedbacks]
run(fs, config, judge) ==
    IF config.per_case THEN run_per_case(fs, config, judge)
    ELSE IF config.run_id \in DOMAIN fs
    THEN [fs |-> fs, exc |-> "FileExistsError", feedbacks |-> <<>>]
    ELSE Bind(run_iterations(config, 1, <<>>), LAMBDA r :
             [fs |-> dict_put(fs, config.run_id,
                              [runner |-> "run", config |-> config,
                               cases |-> [t \in {"iterations"} |-> r.iterations],
                               summary |-> IF r.exc = "none"
                                           THEN <<[t \in {"iterations"} |->
                                                     summary_entries(r.iterations)]>>
                                           ELSE <<>>]),
              exc |-> r.exc,
              feedbacks |-> IF r.exc = "none"
                            THEN [k \in 1..Len(r.iterations) |-> r.iterations[k].feedback[1]]
                            ELSE <<>>])

\* case_loop.py 152-175: the synthetic judge result of a dry-run iteration
dry_run_judge_payload(cfg, iter_num) ==
    Bind(iter_num >= cfg.dry_run_stop_iter, LAMBDA reached :
        JudgeResult(<<cfg.case_id, iter_num>>,
                    IF reached THEN cfg.stop_overall ELSE max0(cfg.stop_overall - 100),
                    100 * int_round(IF reached THEN cfg.stop_accuracy
                                    ELSE max0(cfg.stop_accuracy - 100))))

\* a loop of run_case_loop that goes on after stop_reached
RECURSIVE case_loop_never_breaks(_, _, _, _)
case_loop_never_breaks(cfg, judge, iter_num, iterations) ==
    IF iter_num > cfg.max_iters THEN iterations
    ELSE case_loop_never_breaks(
             cfg, judge, iter_num + 1,
             Append(iterations,
                    IterationFolder(iter_num,
                        <<judge_result_to_feedback(
                              IF cfg.dry_run THEN dry_run_judge_payload(cfg, iter_num)
                              ELSE judge[iter_num],
                              cfg.run_id, iter_num, cfg.case_id,
                              cfg.stop_accuracy, cfg.stop_overall)>>)))

\* case_loop.py 117-257: the loop of run_case_loop from iter_num on; judge is the judge
\* result of each iteration of the real mode
RECURSIVE case_loop_iterations(_, _, _, _)
case_loop_iterations(cfg, judge, iter_num, iterations) ==
    IF iter_num > cfg.max_iters THEN iterations
    ELSE Bind(judge_result_to_feedback(
                  IF cfg.dry_run THEN dry_run_judge_payload(cfg, iter_num) ELSE judge[iter_num],
                  cfg.run_id, iter_num, cfg.case_id, cfg.stop_accuracy, cfg.stop_overall),
              LAMBDA feedback :
                 IF feedback.stop_reached
                 THEN Append(iterations, IterationFolder(iter_num, <<feedback>>))
                 ELSE case_loop_iterations(
                          cfg, judge, iter_num + 1,
                          Append(iterations, IterationFolder(iter_num, <<feedback>>))))

\* a run_case_loop without the check of lines 80-82, writing into an existing run folder
run_case_loop_overwrites(fs, cfg, judge) ==
    [fs |-> dict_put(fs, cfg.run_id,
                     [runner |-> "run_case_loop", config |-> cfg,
                      cases |-> [t \in {case_tag(cfg.case_num)} |->
                                    case_loop_iterations(cfg, judge, 1, <<>>)],
                      summary |-> <<>>]),
     exc |-> "none"]

\* case_loop.run_case_loop(cfg): [fs, exc]; it writes no run_summary.json
run_case_loop(fs, cfg, judge) ==
    IF cfg.run_id \in DOMAIN fs THEN [fs |-> fs, exc |-> "FileExistsError"]
    ELSE [fs |-> dict_put(fs, cfg.run_id,
                          [runner |-> "run_case_loop", config |-> cfg,
                           cases |-> [t \in {case_tag(cfg.case_num)} |->
                                         case_loop_iterations(cfg, judge, 1, <<>>)],
                           summary |-> <<>>]),
          exc |-> "none"]

-----------------------------------------------------------------------------
(* Inputs of the calls *)

UserEntity(name, entity_type, label) ==
    Entity(<<"usr", name>>, entity_type, label, "", NoAttributes, 100, <<>>)

UserRelation(s, t, relation_type) ==
    Relation(<<"usr", s>>, <<"usr", t>>, relation_type, 100, <<>>, <<>>, NoAttributes)

\* entities and relations a caller of the CausalGraph API adds
UserEntities ==
    {UserEntity("a", "RootCause", <<"C","M">>),
     UserEntity("b", "Component", <<"D","D","R"," ","v","o","t","i","n","g">>),
     UserEntity("c", "Symptom", <<"C","P","U">>)}

\* the relations of the given kinds between them
UserRelations(kinds) ==
    {UserRelation(s, t, k) : s \in {"a", "b", "c"}, t \in {"a", "b", "c"}, k \in kinds}

\* the graph loaded before an augmentation run is built from these
BaseEntities ==
    {UserEntity("a", "RootCause", <<"C","M">>),
     UserEntity("b", "Component", <<"D","D","R"," ","v","o","t","i","n","g">>)}

BaseRelations ==
    {UserRelation("a", "b", "CAUSES"), UserRelation("b", "a", "CORRELATES_WITH")}

\* candidate entities of the entity extractor, keyed by temporary ids
Cand(id, entity_type, label, description, confidence) ==
    Entity(id, entity_type, label, description, NoAttributes, confidence, <<"s">>)

\* candidate relations of the relation extractor
CandRel(source, target, relation_type) ==
    Relation(source, target, relation_type, 80, <<"e", "v">>, <<>>, NoAttributes)

Batch1 ==
    <<Cand("e1", "RootCause", <<"C","M">>, "CPU Manager", 100),
      Cand("e2", "Component", <<"D","D","R"," ","v","o","t","i","n","g">>, "", 80)>>

Batch2 ==
    <<Cand("e1", "Component", <<"D","D","R"," ","v","o","t","i","n","g","s">>, "", 80),
      Cand("e2", "Component", <<"D","D","R"," ","v","o","t","i","n","g">>, "", 100),
      Cand("e3", "Metric", <<"D","D","R"," ","5","%">>, "", 100)>>

Links1 ==
    <<CandRel("e1", "e2", "CAUSES"), CandRel("e2", "e1", "ENABLES"),
      CandRel("e2", "e3", "CAUSES")>>

Links2 ==
    <<CandRel("e1", "e2", "CORRELATES_WITH"), CandRel("e2", "e1", "CAUSES"),
      CandRel("e1", "e1", "PREVENTS")>>

\* one case of the feedback payload with one dimension
Case(case_id, missing_elements) == [case_id |-> case_id, dimensions |-> <<missing_elements>>]

\* "SW_REQ2"
Feedback1 == <<Case("c1", << <<"S","W","_","R","E","Q","2">> >>)>>

\* "SW_REQ2" and "CM 5% -> B" in case c1, "CM 6% -> B" in case c2
Feedback2 ==
    <<Case("c1", << <<"S","W","_","R","E","Q","2">>,
                    <<"C","M"," ","5","%"," ","-",">"," ","B">> >>),
      Case("c2", << <<"C","M"," ","6","%"," ","-",">"," ","B">> >>)>>

\* "CM (u2192) DDR" and "ddr5460"
Feedback3 ==
    <<Case("c1", << <<"C","M"," ","u2192"," ","D","D","R">>,
                    <<"d","d","r","5","4","6","0">> >>)>>

\* one augment() call of report r1
Request(extracted_entities, extracted_relations, feedback, case_filter, fuzzy_match) ==
    [extracted_entities |-> extracted_entities, extracted_relations |-> extracted_relations,
     report_id |-> <<"r","1">>, feedback |-> feedback, case_filter |-> case_filter,
     fuzzy_match |-> fuzzy_match]

\* augment() calls: extraction only, feedback only, and both
Requests ==
    {Request(b[1], b[2], <<>>, "all", fz) :
        b \in {<<Batch1, Links1>>, <<Batch1, Links2>>, <<Batch2, Links1>>}, fz \in BOOLEAN}
    \cup {Request(<<>>, <<>>, f, "all", TRUE) : f \in {Feedback1, Feedback2, Feedback3}}
    \cup {Request(<<>>, <<>>, Feedback2, "c1", TRUE),
          Request(Batch1, Links1, Feedback1, "all", TRUE)}

-----------------------------------------------------------------------------
(* The state machine *)

\* the CausalGraph object
G == [entities |-> entities, relations |-> relations, edges |-> edges,
      strict_dag |-> strict_dag]

NoMarks ==
    [ent0 |-> 0, rel0 |-> 0, entA |-> 0, relA |-> 0, entB |-> 0, relB |-> 0,
     entC |-> 0, relC |-> 0, causalA |-> <<>>, causalB |-> <<>>]

\* CausalGraph(strict_dag) and a CkgAugmenter that has not run
InitGraph(strict) ==
    /\ entities = <<>>
    /\ relations = <<>>
    /\ edges = {}
    /\ strict_dag = strict
    /\ diff = EmptyDiff
    /\ id_map = EmptyDict
    /\ marks = NoMarks
    /\ last = [op |-> "init", args |-> <<>>, exc |-> "none"]
    /\ repeated = FALSE
    /\ augments = 0
    /\ result = <<>>
    /\ output_root = EmptyDict

\* CausalGraph(): strict_dag at its default
Init == InitGraph(TRUE)

\* graph.add_entity(e)
AddEntity(e) ==
    /\ Len(entities) < MaxEntities
    /\ entities' = add_entity(G, e).entities
    /\ last' = [op |-> "add_entity", args |-> e, exc |-> "none"]
    /\ repeated' = FALSE
    /\ UNCHANGED <<relations, edges, strict_dag, diff, id_map, marks, augments, result,
                   output_root>>

\* graph.add_relation(r), validate_dag at its default True
AddRelation(r) ==
    /\ Len(relations) < MaxRelations
    /\ \E res \in {add_relation(G, r, TRUE)} :
          /\ relations' = res.g.relations
          /\ edges' = res.g.edges
          /\ last' = [op |-> "add_relation", args |-> r, exc |-> res.exc]
    /\ repeated' = FALSE
    /\ UNCHANGED <<entities, strict_dag, diff, id_map, marks, augments, result, output_root>>

\* augmenter.augment(report_text, graph, report_id, feedback, case_filter) with extractors
\* that return req.extracted_entities and req.extracted_relations
Augment(req) ==
    /\ augments < MaxAugments
    /\ \E res \in {augment(G, req.extracted_entities, req.extracted_relations,
                           req.report_id, req.feedback, req.case_filter, req.fuzzy_match)} :
          /\ entities' = res.g.entities
          /\ relations' = res.g.relations
          /\ edges' = res.g.edges
          /\ diff' = res.diff
          /\ id_map' = res.id_map
          /\ marks' = res.marks
          /\ last' = [op |-> "augment", args |-> req, exc |-> res.exc]
    /\ repeated' = (last.op = "augment" /\ last.args = req)
    /\ augments' = augments + 1
    /\ UNCHANGED <<strict_dag, result, output_root>>

\* graph.get_causal_chain(entity_id)
GetCausalChain(entity_id) ==
    /\ \E res \in {get_causal_chain(G, entity_id, 1)} :
          /\ result' = res.chains
          /\ last' = [op |-> "get_causal_chain", args |-> entity_id, exc |-> res.exc]
    /\ repeated' = FALSE
    /\ UNCHANGED <<entities, relations, edges, strict_dag, diff, id_map, marks, augments,
                   output_root>>

\* graph = CausalGraph.from_dict(graph.to_dict()): the graph is replaced by the loaded one
\* unless from_dict raises
SaveLoad ==
    /\ \E res \in {from_dict(to_dict(G))} :
          /\ last' = [op |-> "from_dict", args |-> to_dict(G), exc |-> res.exc]
          /\ IF res.exc = "none"
             THEN /\ entities' = res.g.entities
                  /\ relations' = res.g.relations
                  /\ edges' = res.g.edges
                  /\ strict_dag' = res.g.strict_dag
             ELSE UNCHANGED <<entities, relations, edges, strict_dag>>
    /\ repeated' = FALSE
    /\ UNCHANGED <<diff, id_map, marks, augments, result, output_root>>

\* a graph is loaded, then augmentation runs on it
Next ==
    \/ \E e \in BaseEntities : AddEntity(e)
    \/ \E r \in BaseRelations : AddRelation(r)
    \/ \E req \in Requests : Augment(req)

Spec == Init /\ [][Next]_vars

\* the CausalGraph API on its own
GraphNext ==
    \/ \E e \in UserEntities : AddEntity(e)
    \/ \E r \in UserRelations({"CAUSES", "CORRELATES_WITH"}) : AddRelation(r)

GraphSpec == Init /\ [][GraphNext]_vars

\* the CausalGraph API used with causal relations only
CausalNext ==
    \/ \E e \in UserEntities : AddEntity(e)
    \/ \E r \in UserRelations(CAUSAL_RELATION_TYPES) : AddRelation(r)

CausalSpec == Init /\ [][CausalNext]_vars

\* "VCORE usage 82.6%" and "VCORE usage 29.3%"
Vcore826 == <<"V","C","O","R","E"," ","u","s","a","g","e"," ","8","2",".","6","%">>

Vcore293 == <<"V","C","O","R","E"," ","u","s","a","g","e"," ","2","9",".","3","%">>

\* augment() calls whose candidates are metrics read off two reports: either one, or both
\* in one batch
MetricRequests ==
    {Request(b, <<>>, <<>>, "all", fz) :
        b \in {<<Cand("m1", "Metric", Vcore826, "", 90)>>,
               <<Cand("m2", "Metric", Vcore293, "", 80)>>,
               <<Cand("m1", "Metric", Vcore826, "", 90),
                 Cand("m2", "Metric", Vcore293, "", 80)>>},
        fz \in BOOLEAN}

\* a graph that may hold the metric "VCORE usage" is augmented with metric candidates
MetricNext ==
    \/ \E e \in {UserEntity("m", "Metric", SubSeq(Vcore826, 1, 11)),
                  UserEntity("b", "Component", <<"D","D","R"," ","v","o","t","i","n","g">>)} :
          AddEntity(e)
    \/ \E req \in MetricRequests : Augment(req)

MetricSpec == Init /\ [][MetricNext]_vars

\* augment() calls whose batch names the root cause "CM" twice, with descriptions and
\* confidences that differ, and links it once or twice to the component "DDR voting",
\* with evidence and confidences that differ
MergeRequests ==
    {Request(<<Cand("e1", "RootCause", <<"C","M">>, c1[1], c1[2]),
               Cand("e2", "RootCause", <<"C","M">>, c2[1], c2[2]),
               Cand("e3", "Component", <<"D","D","R"," ","v","o","t","i","n","g">>, "", 80)>>,
             links, <<>>, "all", FALSE) :
        c1 \in {<<"", 50>>, <<"x", 80>>, <<"x", 50>>},
        c2 \in {<<"", 30>>, <<"y", 100>>, <<"y", 60>>},
        links \in
           {<<Relation("e1", "e3", "CORRELATES_WITH", l[1], l[2], <<>>, NoAttributes)>> :
               l \in {<<50, <<>> >>, <<80, <<"e","v">> >>, <<50, <<"e">> >>, <<60, <<"x">> >>}}
           \cup
           {<<Relation("e1", "e3", "CORRELATES_WITH", l[1], l[2], <<>>, NoAttributes),
              Relation("e2", "e3", "CORRELATES_WITH", 70, <<"e","v">>, <<>>, NoAttributes)>> :
               l \in {<<50, <<>> >>, <<90, <<"x">> >>}}}

\* the same entities and the same relation come in again and again
MergeNext == \E req \in MergeRequests : Augment(req)

MergeSpec == Init /\ [][MergeNext]_vars

\* "DDR voting"
DdrVoting == <<"D","D","R"," ","v","o","t","i","n","g">>

\* entities whose labels are close to "DDR voting": two components at the same distance,
\* a symptom, and a component too far away
FuzzyEntities ==
    {UserEntity("x", "Component", DdrVoting \o <<"x">>),
     UserEntity("y", "Component", DdrVoting \o <<"y">>),
     UserEntity("s", "Symptom", DdrVoting \o <<"s">>),
     UserEntity("v", "Component", <<"D","D","R"," ","v","o","t","e">>)}

\* augment() calls with the component "DDR voting", alone or followed by "DDR votings"
FuzzyRequests ==
    {Request(b, <<>>, <<>>, "all", fz) :
        b \in {<<Cand("e1", "Component", DdrVoting, "", 90)>>,
               <<Cand("e1", "Component", DdrVoting, "", 90),
                 Cand("e2", "Component", DdrVoting \o <<"s">>, "", 80)>>},
        fz \in BOOLEAN}

\* a graph with entities of close labels is augmented
FuzzyNext ==
    \/ \E e \in FuzzyEntities : AddEntity(e)
    \/ \E req \in FuzzyRequests : Augment(req)

FuzzySpec == Init /\ [][FuzzyNext]_vars

\* a graph of the metrics "DDR 5%" (a) and "CPU load" (c) and the components "DDR" (b)
\* and "CPU" (d), with evidential and other relations from the metrics, is augmented by
\* calls that bring nothing, so that only the autolink pass acts
AutolinkNext ==
    \/ \E e \in {UserEntity("a", "Metric", <<"D","D","R"," ","5","%">>),
                  UserEntity("b", "Component", <<"D","D","R">>),
                  UserEntity("c", "Metric", <<"C","P","U"," ","l","o","a","d">>),
                  UserEntity("d", "Component", <<"C","P","U">>)} :
          AddEntity(e)
    \/ \E r \in {UserRelation("a", "d", "INDICATES"), UserRelation("a", "b", "CONFIRMS"),
                  UserRelation("c", "d", "CORRELATES_WITH"),
                  UserRelation("c", "d", "INDICATES")} :
          AddRelation(r)
    \/ Augment(Request(<<>>, <<>>, <<>>, "all", FALSE))

AutolinkSpec == Init /\ [][AutolinkNext]_vars

\* a relation with a CausalEffect
EffectRelation ==
    Relation(<<"usr", "a">>, <<"usr", "b">>, "ENABLES", 70, <<"e", "v">>,
             [strength |-> 50, is_direct |-> FALSE, temporal_order |-> "minutes",
              mechanism |-> <<"m">>],
             NoAttributes)

\* a graph of either mode is built through the API, saved and loaded
SaveLoadNext ==
    \/ \E e \in UserEntities : AddEntity(e)
    \/ \E r \in UserRelations({"CAUSES"}) \cup {EffectRelation} : AddRelation(r)
    \/ SaveLoad

\* CausalGraph(strict_dag=True) or CausalGraph(strict_dag=False)
InitAnyMode == \E strict \in BOOLEAN : InitGraph(strict)

SaveLoadSpec == InitAnyMode /\ [][SaveLoadNext]_vars

\* the graph is built through the API and by feedback-driven augmentation, and queried
ChainNext ==
    \/ \E e \in BaseEntities : AddEntity(e)
    \/ \E r \in BaseRelations \cup {UserRelation("a", "a", "CORRELATES_WITH")} : AddRelation(r)
    \/ Augment(Request(<<>>, <<>>, Feedback2, "all", TRUE))
    \/ \E id \in {entities[i].id : i \in 1..Len(entities)} \cup {<<"usr", "c">>} :
          GetCausalChain(id)

ChainSpec == Init /\ [][ChainNext]_vars

\* orchastrator.models.RunConfig with the fields the runners read; max_iters_per_case 0
\* is None; the cases are two
RunConfig(run_id, max_iters, dry_run, stop, per_case, max_iters_per_case) ==
    [run_id |-> run_id, max_iters |-> max_iters, dry_run |-> dry_run, stop |-> stop,
     cases |-> <<[case_id |-> "case1", case_num |-> 1], [case_id |-> "case2", case_num |-> 2]>>,
     per_case |-> per_case, max_iters_per_case |-> max_iters_per_case]

\* case_loop.CaseLoopConfig with the fields the loop reads
CaseLoopConfig(run_id, max_iters, stop_accuracy, stop_overall, dry_run, dry_run_stop_iter) ==
    [run_id |-> run_id, case_id |-> "case1", case_num |-> 1, max_iters |-> max_iters,
     stop_accuracy |-> stop_accuracy, stop_overall |-> stop_overall, dry_run |-> dry_run,
     dry_run_stop_iter |-> dry_run_stop_iter]

RunIds == {"r1", "r2"}

\* StopCriteria: the defaults (9.0, 8.0), and an overall threshold the dry run's 8.5
\* does not exceed
StopChoices == {[min_accuracy |-> 900, min_overall |-> 800],
                [min_accuracy |-> 900, min_overall |-> 850]}

RunConfigs ==
    {RunConfig(run_id, max_iters, dry_run, stop, per_case, max_iters_per_case) :
        run_id \in RunIds, max_iters \in {1, MaxIters}, dry_run \in BOOLEAN,
        stop \in StopChoices, per_case \in BOOLEAN, max_iters_per_case \in {0, 2}}

\* the scores <<composite, accuracy>> the judge gives in the iterations of a real run
JudgeRuns == {[k \in 1..MaxIters |-> <<700, 600>>],
              [k \in 1..MaxIters |-> IF k = 1 THEN <<700, 600>> ELSE <<850, 900>>],
              [k \in 1..MaxIters |-> IF k = 1 THEN <<920, 1000>> ELSE <<700, 600>>]}

\* the judge reports of a real per-case run: every case gets the iteration's scores
judge_reports(config, scores) ==
    [k \in 1..Len(scores) |->
        [i \in 1..Len(config.cases) |->
            JudgeResult(config.cases[i].case_id, scores[k][1], scores[k][2])]]

\* the judge results of a real case loop
judge_results(cfg, scores) ==
    [k \in 1..Len(scores) |-> JudgeResult(cfg.case_id, scores[k][1], scores[k][2])]

CaseLoopConfigs ==
    {CaseLoopConfig(run_id, max_iters, 900, 800, dry_run, dry_run_stop_iter) :
        run_id \in RunIds, max_iters \in {1, MaxIters}, dry_run \in BOOLEAN,
        dry_run_stop_iter \in {1, 2}}

\* a call of one of the runners that returned res
Ran(op, run_id, res, returned) ==
    /\ output_root' = res.fs
    /\ last' = [op |-> op, args |-> run_id, exc |-> res.exc]
    /\ result' = IF res.exc = "none" THEN returned ELSE <<>>
    /\ repeated' = FALSE
    /\ UNCHANGED <<entities, relations, edges, strict_dag, diff, id_map, marks, augments>>

\* ClosedLoopOrchestrator().run(config)
Run(config, scores) ==
    \E res \in {run(output_root, config, judge_reports(config, scores))} :
        Ran("run", config.run_id, res, res.feedbacks)

\* ClosedLoopOrchestrator().run_per_case(config)
RunPerCase(config, scores) ==
    \E res \in {run_per_case(output_root, config, judge_reports(config, scores))} :
        Ran("run_per_case", config.run_id, res, res.feedbacks)

\* run_case_loop(cfg), which returns the run directory
RunCaseLoop(cfg, scores) ==
    \E res \in {run_case_loop(output_root, cfg, judge_results(cfg, scores))} :
        Ran("run_case_loop", cfg.run_id, res, cfg.run_id)

\* the runners on two run ids; a dry run asks no judge
RunnerNext ==
    \/ \E config \in RunConfigs :
          \E scores \in IF config.dry_run \/ ~config.per_case THEN {<<>>} ELSE JudgeRuns :
             Run(config, scores)
    \/ \E config \in {c \in RunConfigs : c.per_case} :
          \E scores \in IF config.dry_run THEN {<<>>} ELSE JudgeRuns :
             RunPerCase(config, scores)
    \/ \E cfg \in CaseLoopConfigs :
          \E scores \in IF cfg.dry_run THEN {<<>>} ELSE JudgeRuns :
             RunCaseLoop(cfg, scores)

RunnerSpec == Init /\ [][RunnerNext]_vars

\* dry runs of the case loop over thresholds: the defaults 9.0 and 8.0, an accuracy
\* threshold 8.4 that is no whole number, and thresholds 0.0
DryRunConfigs ==
    {CaseLoopConfig(run_id, max_iters, stop_accuracy, stop_overall, TRUE, dry_run_stop_iter) :
        run_id \in RunIds, max_iters \in 1..MaxIters, stop_accuracy \in {900, 840, 0},
        stop_overall \in {800, 0}, dry_run_stop_iter \in 1..MaxIters}

DryRunNext == \E cfg \in DryRunConfigs : RunCaseLoop(cfg, <<>>)

DryRunSpec == Init /\ [][DryRunNext]_vars

-----------------------------------------------------------------------------
(* Vocabulary of the properties.  The causal kinds and the paths are       *)
(* stated on the stored relation sequence, not on the edge index.          *)

CausalKinds == {"CAUSES", "PREVENTS", "ENABLES"}

\* keys of the entity map
Ids == {entities[i].id : i \in 1..Len(entities)}

\* (source, type, target) of a relation
KeyOf(r) == <<r.source_id, r.relation_type, r.target_id>>

\* the keys of the stored relations
Keys == {KeyOf(relations[i]) : i \in 1..Len(relations)}

\* the <<source, target>> pairs of the causal relations of rels
CausalPairs(rels) ==
    {<<rels[i].source_id, rels[i].target_id>> :
        i \in {k \in 1..Len(rels) : rels[k].relation_type \in CausalKinds}}

\* the nodes reached from the set S along the pairs P, S included
RECURSIVE Reach(_, _)
Reach(P, S) ==
    IF {p[2] : p \in {q \in P : q[1] \in S}} \subseteq S THEN S
    ELSE Reach(P, S \cup {p[2] : p \in {q \in P : q[1] \in S}})

\* a directed path along P, the empty path included
PathIn(P, from, to) == to \in Reach(P, {from})

\* no directed cycle along P, self-loops included
AcyclicPairs(P) == \A p \in P : ~PathIn(P, p[2], p[1])

-----------------------------------------------------------------------------
(* Properties of the CausalGraph API *)

\* C1: on a strict graph that is given causal relations only, is_valid_dag() is true after
\* every add_entity and add_relation call, and an add_relation that would close a cycle
\* (a path of stored relations leads from its target to its source) raises
\* CausalGraphValidationError and leaves _entities, _relations and the edge index as
\* they were.
C1_CausalInsertionsKeepDag ==
    [][/\ is_valid_dag(G')
       /\ (/\ last'.op = "add_relation"
           /\ last'.args.source_id \in Ids
           /\ last'.args.target_id \in Ids
           /\ PathIn(CausalPairs(relations), last'.args.target_id, last'.args.source_id))
          => (/\ last'.exc = "CausalGraphValidationError"
              /\ UNCHANGED <<entities, relations, edges>>)]_vars

\* C1, its case: a relation was rejected for a cycle that runs through two stored relations
C1_TransitiveCycleRejected ==
    /\ last.op = "add_relation"
    /\ last.exc = "CausalGraphValidationError"
    /\ last.args.source_id # last.args.target_id
    /\ \A i \in 1..Len(relations) :
          ~(relations[i].source_id = last.args.target_id
            /\ relations[i].target_id = last.args.source_id)
    /\ is_valid_dag(G)

\* C2: add_relation on a strict graph rejects a causal relation with
\* CausalGraphValidationError exactly when a path of causal relations leads from its target
\* to its source; a path through a non-causal relation does not get it rejected.
C2_RejectedExactlyOnCausalPath ==
    [][(/\ last'.op = "add_relation"
        /\ last'.args.relation_type \in CausalKinds
        /\ last'.args.source_id \in Ids
        /\ last'.args.target_id \in Ids)
       => ((last'.exc = "CausalGraphValidationError")
           <=> PathIn(CausalPairs(relations), last'.args.target_id, last'.args.source_id))]_vars

\* C3: whatever add_entity, add_relation and augment calls were made, the causal relations
\* stored in the graph form no directed cycle, self-loops included.
C3_CausalSubgraphAcyclic == AcyclicPairs(CausalPairs(relations))

\* C3, its case: an augment call was refused a cycle-closing relation and the graph holds
\* causal and non-causal relations
C3_AugmentRefusedACycle ==
    /\ last.op = "augment"
    /\ \E i \in 1..Len(diff.conflicts) : diff.conflicts[i].exc = "CausalGraphValidationError"
    /\ \E i \in 1..Len(relations) : relations[i].relation_type \in CausalKinds
    /\ \E i \in 1..Len(relations) : relations[i].relation_type \notin CausalKinds

\* C4: add_relation of a non-causal relation never raises CausalGraphValidationError, and
\* with both endpoints in the entity map it succeeds and appends the relation: A -> B and
\* then B -> A with CORRELATES_WITH are both stored.
C4_NonCausalNeverRejectedForCycle ==
    [][(/\ last'.op = "add_relation"
        /\ last'.args.relation_type \notin CausalKinds)
       => (/\ last'.exc # "CausalGraphValidationError"
           /\ (last'.args.source_id \in Ids /\ last'.args.target_id \in Ids)
              => (/\ last'.exc = "none"
                  /\ relations' = Append(relations, last'.args)))]_vars

\* C4, its case: B -> A was just stored after A -> B, both CORRELATES_WITH
C4_BothDirectionsStored ==
    /\ last.op = "add_relation"
    /\ last.exc = "none"
    /\ last.args.relation_type = "CORRELATES_WITH"
    /\ last.args.source_id # last.args.target_id
    /\ Len(relations) >= 2
    /\ relations[Len(relations)] = last.args
    /\ \E i \in 1..(Len(relations) - 1) :
          /\ relations[i].relation_type = "CORRELATES_WITH"
          /\ relations[i].source_id = last.args.target_id
          /\ relations[i].target_id = last.args.source_id

\* both endpoints of every stored relation are keys of the entity map
EndpointsStored ==
    \A i \in 1..Len(relations) :
        relations[i].source_id \in Ids /\ relations[i].target_id \in Ids

\* C5: add_relation raises ValueError whenever the source or the target is not a key of
\* the entity map and then leaves the graph as it was; so after any add_entity,
\* add_relation and augment calls both endpoints of every stored relation are keys of the
\* entity map.
C5_EndpointsChecked ==
    [][/\ (/\ last'.op = "add_relation"
           /\ (last'.args.source_id \notin Ids \/ last'.args.target_id \notin Ids))
          => (/\ last'.exc = "ValueError"
              /\ UNCHANGED <<entities, relations, edges>>)
       /\ EndpointsStored']_vars

\* C5, its case: add_relation raised ValueError on a graph that holds relations
C5_MissingEndpointRefused ==
    /\ last.op = "add_relation"
    /\ last.exc = "ValueError"
    /\ Len(relations) > 0
    /\ EndpointsStored

-----------------------------------------------------------------------------
(* Properties of CkgAugmenter.augment *)

\* the last call was augment()
AugmentCall == last.op = "augment"

\* the last two calls were augment() with the same feedback payload and no candidates, and
\* the first of them returned
FeedbackRerun ==
    /\ repeated
    /\ last.args.feedback # <<>>
    /\ last.args.extracted_entities = <<>>
    /\ last.args.extracted_relations = <<>>

\* C6: running augment with a feedback payload and then again with the identical payload
\* adds nothing the second time: the second diff's feedback_added_entities and
\* feedback_added_relations are empty and the entity ids and the relation keys of the graph
\* are what they were before the second run.
C6_FeedbackIdempotent ==
    [][(FeedbackRerun' /\ last.exc = "none")
       => (/\ diff'.feedback_added_entities = <<>>
           /\ diff'.feedback_added_relations = <<>>
           /\ Ids' = Ids
           /\ Keys' = Keys)]_vars

\* the candidates of the last call
Candidates == last.args.extracted_entities

\* ids of the entities the graph held before the last augment call
IdsBefore == {entities[i].id : i \in 1..marks.ent0}

\* C7: running augment twice in a row with the same candidates and report id adds no
\* entity on the second pass: its diff's added_entities is empty and every candidate is
\* merged into an entity the graph held before the second pass.
C7_EntityMergeIdempotent ==
    (repeated /\ Candidates # <<>>)
    => (/\ diff.added_entities = <<>>
        /\ \A i \in 1..Len(Candidates) :
              /\ Candidates[i].id \in DOMAIN id_map
              /\ id_map[Candidates[i].id] \in IdsBefore
              /\ \E k \in 1..Len(diff.updated_entities) :
                    diff.updated_entities[k] = id_map[Candidates[i].id])

\* C7, its case: the second pass without fuzzy matching merged a candidate into an entity
\* that the first pass had added
C7_SecondPassMerged ==
    /\ repeated
    /\ Candidates # <<>>
    /\ ~last.args.fuzzy_match
    /\ \E i \in 1..Len(Candidates) :
          /\ Candidates[i].id \in DOMAIN id_map
          /\ id_map[Candidates[i].id][1] = "aug"
          /\ id_map[Candidates[i].id] \in IdsBefore

\* C8: every relation the feedback phase adds has confidence 0.3 and a kind other than
\* CAUSES, PREVENTS and ENABLES, and the causal relations of the graph are the same before
\* and after the phase.
C8_FeedbackAddsNoCausalRelation ==
    AugmentCall
    => (/\ \A j \in (marks.relA + 1)..marks.relB :
              /\ relations[j].confidence = 30
              /\ relations[j].relation_type \notin CausalKinds
        /\ marks.causalA = marks.causalB)

\* C8, its case: the feedback phase added relations to a graph that holds causal relations
C8_FeedbackAddedRelations ==
    /\ AugmentCall
    /\ marks.relB >= marks.relA + 2
    /\ marks.causalA # <<>>
    /\ diff.feedback_added_relations # <<>>

\* the candidate relations of the call that leads to the next state, and their keys in the
\* graph once the temporary ids are resolved
BatchOf(req) == req.extracted_relations

ResolvedKey(idm, r) == <<idm[r.source_id], r.relation_type, idm[r.target_id]>>

\* the <<source, target>> pairs of the causal relations of the batch at the positions S
BatchCausalPairs(idm, batch, S) ==
    {<<idm[batch[i].source_id], idm[batch[i].target_id]>> :
        i \in {k \in S : batch[k].relation_type \in CausalKinds}}

\* the batch resolves to new, pairwise different relation keys between stored entities
BatchNewAndResolved(idm, batch) ==
    /\ Len(batch) >= 2
    /\ \A i \in 1..Len(batch) :
          /\ batch[i].source_id \in DOMAIN idm
          /\ batch[i].target_id \in DOMAIN idm
          /\ ResolvedKey(idm, batch[i]) \notin Keys
    /\ \A i, j \in 1..Len(batch) :
          i # j => ResolvedKey(idm, batch[i]) # ResolvedKey(idm, batch[j])

\* position b holds the one cycle-closing relation: it is causal and a path of causal
\* relations, stored or earlier in the batch, leads from its target to its source, while
\* the stored relations and the rest of the batch are free of causal cycles
OneCycleClosing(idm, batch, b) ==
    /\ batch[b].relation_type \in CausalKinds
    /\ PathIn(CausalPairs(relations) \cup BatchCausalPairs(idm, batch, 1..(b - 1)),
              idm[batch[b].target_id], idm[batch[b].source_id])
    /\ AcyclicPairs(CausalPairs(relations)
                    \cup BatchCausalPairs(idm, batch, (1..Len(batch)) \ {b}))

\* C9: when the candidate relations of one augment call hold one causal relation that
\* closes a cycle among otherwise new and valid relations, the valid ones before and after
\* it are all added, diff.conflicts has exactly one entry, the rejected relation is not
\* stored and the causal relations still form no cycle.
C9_ConflictIsolated ==
    [][last'.op = "augment"
       => \A b \in 1..Len(BatchOf(last'.args)) :
             (/\ BatchNewAndResolved(id_map', BatchOf(last'.args))
              /\ OneCycleClosing(id_map', BatchOf(last'.args), b))
             => (/\ Len(diff'.conflicts) = 1
                 /\ \A i \in (1..Len(BatchOf(last'.args))) \ {b} :
                       ResolvedKey(id_map', BatchOf(last'.args)[i]) \in Keys'
                 /\ ResolvedKey(id_map', BatchOf(last'.args)[b]) \notin Keys'
                 /\ AcyclicPairs(CausalPairs(relations')))]_vars

\* the relation descriptions of a diff list as keys
DescKeys(descs) == {<<descs[i].source, descs[i].type, descs[i].target>> : i \in 1..Len(descs)}

\* C10: after every augment call, every entity that is in the graph and was not before
\* the call has its id in diff.added_entities or diff.feedback_added_entities, and every
\* relation appended during the call has its (source, type, target) in
\* diff.added_relations or diff.feedback_added_relations.
C10_DiffListsEveryAddition ==
    AugmentCall
    => (/\ \A i \in (marks.ent0 + 1)..Len(entities) :
              \E k \in 1..Len(diff.added_entities \o diff.feedback_added_entities) :
                  (diff.added_entities \o diff.feedback_added_entities)[k] = entities[i].id
        /\ \A j \in (marks.rel0 + 1)..Len(relations) :
              KeyOf(relations[j]) \in DescKeys(diff.added_relations)
                                      \cup DescKeys(diff.feedback_added_relations))

\* the (kind, normalized label) key under which augment looks a candidate up, the label of
\* a Metric candidate being its canonical label
CandKey(c) == <<c.entity_type, _normalize_label(canonicalized(c).label)>>

\* the ids of the stored entities with the key k
IdsWithKey(k) ==
    {entities[p].id :
        p \in {q \in 1..Len(entities) :
                  <<entities[q].entity_type, _normalize_label(entities[q].label)>> = k}}

\* the conflicts of a diff as <<source, target>> pairs
ConflictPairs(df) == {<<df.conflicts[i].source, df.conflicts[i].target>> : i \in 1..Len(df.conflicts)}

\* C11: when a candidate has the kind and the normalized label of an entity the graph holds
\* before the augment call, the call adds no entity with that key in its extraction phase,
\* maps the candidate's temporary id to the id of such an entity and appends that id to
\* diff.updated_entities; and every candidate relation whose endpoints are both mapped is
\* stored under the mapped ids, or recorded as a conflict under the mapped ids.
C11_MatchedCandidateMerged ==
    [][last'.op = "augment"
       => /\ \A i \in 1..Len(last'.args.extracted_entities) :
                IdsWithKey(CandKey(last'.args.extracted_entities[i])) # {}
                => (/\ last'.args.extracted_entities[i].id \in DOMAIN id_map'
                    /\ id_map'[last'.args.extracted_entities[i].id]
                          \in IdsWithKey(CandKey(last'.args.extracted_entities[i]))
                    /\ \E k \in 1..Len(diff'.updated_entities) :
                          diff'.updated_entities[k]
                              = id_map'[last'.args.extracted_entities[i].id]
                    /\ \A p \in (Len(entities) + 1)..marks'.entA :
                          <<entities'[p].entity_type, _normalize_label(entities'[p].label)>>
                              # CandKey(last'.args.extracted_entities[i]))
          /\ \A j \in 1..Len(last'.args.extracted_relations) :
                (/\ last'.args.extracted_relations[j].source_id \in DOMAIN id_map'
                 /\ last'.args.extracted_relations[j].target_id \in DOMAIN id_map')
                => \/ ResolvedKey(id_map', last'.args.extracted_relations[j]) \in Keys'
                   \/ <<id_map'[last'.args.extracted_relations[j].source_id],
                         id_map'[last'.args.extracted_relations[j].target_id]>>
                          \in ConflictPairs(diff')]_vars

\* C11, its case: the graph held the one entity "CM" of kind RootCause; the candidates
\* "CM" (RootCause) and "DDR voting" (Component) with a CAUSES relation between them left
\* 2 entities, the id of the stored "CM" in updated_entities and exactly 1 added relation,
\* which starts at the stored "CM"
C11_CandidateMergedIntoBase ==
    /\ last.op = "augment"
    /\ last.args.extracted_entities = Batch1
    /\ marks.ent0 = 1
    /\ Len(entities) = 2
    /\ entities[1].id = <<"usr", "a">>
    /\ diff.updated_entities = << <<"usr", "a">> >>
    /\ Len(diff.added_relations) = 1
    /\ id_map["e1"] = <<"usr", "a">>
    /\ \E j \in 1..Len(relations) :
          /\ relations[j].source_id = <<"usr", "a">>
          /\ relations[j].target_id = id_map["e2"]
          /\ relations[j].relation_type = "CAUSES"

\* no two relations of rels have the same (source, type, target)
UniqueKeys(rels) ==
    \A i, j \in 1..Len(rels) : KeyOf(rels[i]) = KeyOf(rels[j]) => i = j

\* C12: an augment call on a graph that holds no two relations with the same (source,
\* type, target) leaves a graph that holds no two such relations, whatever the extractor
\* relations, the feedback rules and the autolink add; a candidate relation whose key the
\* graph already holds is listed in diff.updated_relations and no relation is appended
\* under that key.
C12_RelationKeysStayUnique ==
    [][last'.op = "augment"
       => /\ UniqueKeys(relations) => UniqueKeys(relations')
          /\ \A j \in 1..Len(last'.args.extracted_relations) :
                (/\ last'.args.extracted_relations[j].source_id \in DOMAIN id_map'
                 /\ last'.args.extracted_relations[j].target_id \in DOMAIN id_map'
                 /\ ResolvedKey(id_map', last'.args.extracted_relations[j]) \in Keys)
                => (/\ ResolvedKey(id_map', last'.args.extracted_relations[j])
                          \in DescKeys(diff'.updated_relations)
                    /\ \A p \in (Len(relations) + 1)..Len(relations') :
                          KeyOf(relations'[p])
                              # ResolvedKey(id_map', last'.args.extracted_relations[j]))]_vars

\* C12, its case: an augment call merged a candidate relation into a stored one and the
\* feedback phase or the autolink appended relations; no key is held twice
C12_MergedAndAppended ==
    /\ last.op = "augment"
    /\ diff.updated_relations # <<>>
    /\ marks.rel0 >= 1
    /\ Len(relations) > marks.rel0
    /\ UniqueKeys(relations)

-----------------------------------------------------------------------------
(* Properties of the graph queries *)

\* C13: on every graph that add_entity, add_relation and augment calls build, cycles of
\* non-causal relations and self-loops included, get_causal_chain(id) returns a list of
\* paths: it does not end in an exception.
C13_CausalChainReturns ==
    last.op = "get_causal_chain" => last.exc = "none"

\* C14: for every graph that add_entity and add_relation calls build,
\* CausalGraph.from_dict(g.to_dict()) raises nothing and gives a graph with the same
\* entities and the same relation sequence, all fields included, and the loaded graph's
\* to_dict() is the document it was loaded from.
C14_RoundTripLossless ==
    [][last'.op = "from_dict"
       => (/\ last'.exc = "none"
           /\ entities' = entities
           /\ relations' = relations
           /\ to_dict(G') = last'.args)]_vars

-----------------------------------------------------------------------------
(* Properties of CkgAugmenter.augment, continued *)

\* C15: every augment call returns: no exception leaves it, whatever the base graph, the
\* candidates (relations that name unknown temporary ids, close a causal cycle or repeat a
\* stored key included) and the feedback payload.  Every candidate relation is accounted
\* for in the diff: one with an unmapped endpoint in skipped_relations, any other in
\* added_relations, updated_relations or conflicts, and the relations refused by the graph
\* are exactly the conflicts.
C15_AugmentAlwaysReturns ==
    [][last'.op = "augment"
       => (/\ last'.exc = "none"
           /\ Len(diff'.skipped_relations)
                 = Cardinality({j \in 1..Len(last'.args.extracted_relations) :
                       \/ last'.args.extracted_relations[j].source_id \notin DOMAIN id_map'
                       \/ last'.args.extracted_relations[j].target_id \notin DOMAIN id_map'})
           /\ Len(diff'.skipped_relations) + Len(diff'.added_relations)
                 + Len(diff'.updated_relations) + Len(diff'.conflicts)
                 = Len(last'.args.extracted_relations)
           /\ marks'.relA = Len(relations) + Len(diff'.added_relations))]_vars

\* C15, its case: one call with feedback skipped a candidate relation for an unknown
\* temporary id, was refused a cycle-closing one, merged one into a stored relation, and
\* returned
C15_FailuresOnlyInDiff ==
    /\ last.op = "augment"
    /\ last.exc = "none"
    /\ last.args.feedback # <<>>
    /\ diff.skipped_relations # <<>>
    /\ diff.conflicts # <<>>
    /\ diff.updated_relations # <<>>
    /\ diff.feedback_added_relations # <<>>

\* t is a percent value: digits, possibly a fraction, then %
PercentToken(t) ==
    /\ Len(t) >= 2
    /\ t[Len(t)] = "%"
    /\ t[1] \in DigitChars
    /\ t[Len(t) - 1] \in DigitChars
    /\ \A k \in 1..(Len(t) - 1) : t[k] \in DigitChars \cup {"."}
    /\ Cardinality({k \in 1..(Len(t) - 1) : t[k] = "."}) <= 1

\* the labels are one text followed by a percent value each
DifferOnlyInPercent(l1, l2) ==
    \E p \in 1..Len(l1) :
        /\ p < Len(l2)
        /\ l1[p] = " "
        /\ SubSeq(l1, 1, p) = SubSeq(l2, 1, p)
        /\ PercentToken(SubSeq(l1, p + 1, Len(l1)))
        /\ PercentToken(SubSeq(l2, p + 1, Len(l2)))

\* the Metric candidates of a call, as positions of its batch
MetricPositions(req) ==
    {i \in 1..Len(req.extracted_entities) : req.extracted_entities[i].entity_type = "Metric"}

EntityWithId(id) == entities[CHOOSE p \in 1..Len(entities) : entities[p].id = id]

\* C17: after an augment call, every Metric candidate of the call has its raw label and
\* its percent values in the attributes (raw_label, metric_values) of the entity it
\* resolved to, whether it was added as that entity or merged into it.
C17_MetricRawValuesRetained ==
    last.op = "augment"
    => \A i \in MetricPositions(last.args) :
          /\ EntityWithId(id_map[last.args.extracted_entities[i].id]).attributes.raw_label
                = str_strip(last.args.extracted_entities[i].label)
          /\ Range(pct_values_from(str_strip(last.args.extracted_entities[i].label), 1))
                \subseteq Range(EntityWithId(id_map[last.args.extracted_entities[i].id])
                                   .attributes.metric_values)

-----------------------------------------------------------------------------
(* Properties of the closed-loop runners *)

\* the run folders under output_root
RunFolders == {output_root[id] : id \in DOMAIN output_root}

\* run() outside the dry-run mode leaves with NotImplementedError in its first iteration
Aborted(f) == f.runner = "run" /\ ~f.config.dry_run

\* the iterations its of one loop are 1, 2, ... in order, each with one feedback, the
\* loop ended right after the first feedback with stop_reached, and at the cap otherwise
LoopDiscipline(its, cap) ==
    /\ Len(its) <= cap
    /\ \A k \in 1..Len(its) :
          /\ its[k].iter_num = k
          /\ Len(its[k].feedback) = 1
          /\ its[k].feedback[1].iter_num = k
          /\ its[k].feedback[1].stop_reached => k = Len(its)
    /\ Len(its) = cap \/ (Len(its) > 0 /\ its[Len(its)].feedback[1].stop_reached)

\* the cap of a loop: run_per_case takes max_iters_per_case when it is set
IterationCap(f) ==
    IF f.runner = "run_per_case" /\ f.config.max_iters_per_case # 0
    THEN f.config.max_iters_per_case
    ELSE f.config.max_iters

C19_DryRunStopsAtStopIter ==
    \A f \in RunFolders :
       (/\ f.runner = "run_case_loop"
        /\ f.config.dry_run
        /\ f.config.dry_run_stop_iter \in 1..f.config.max_iters)
       => \A t \in DOMAIN f.cases :
             /\ Len(f.cases[t]) = f.config.dry_run_stop_iter
             /\ \A k \in 1..Len(f.cases[t]) :
                   f.cases[t][k].feedback[1].stop_reached = (k = f.config.dry_run_stop_iter)

\* C20: a call of run, run_per_case or run_case_loop with a run_id whose run folder
\* exists raises FileExistsError and changes nothing under output_root, and no call
\* changes or removes the folder of an earlier run.
C20_ExistingRunNeverOverwritten ==
    [][/\ (/\ last'.op \in {"run", "run_per_case", "run_case_loop"}
           /\ last'.args \in DOMAIN output_root)
          => (last'.exc = "FileExistsError" /\ output_root' = output_root)
       /\ \A id \in DOMAIN output_root :
             id \in DOMAIN output_root' /\ output_root'[id] = output_root[id]]_vars

\* C20 witness: run_case_loop was called with the run_id of a run that run() had made,
\* raised FileExistsError, and the folder is still the one of run() with its summary
C20_SecondRunRefused ==
    /\ last.op = "run_case_loop"
    /\ last.exc = "FileExistsError"
    /\ last.args \in DOMAIN output_root
    /\ output_root[last.args].runner = "run"
    /\ Len(output_root[last.args].summary) = 1

-----------------------------------------------------------------------------
(* Properties of the merges of augment() *)

\* the positions of the candidates of the call req that resolved to the entity id
MergedInto(req, idm, id) ==
    {i \in 1..Len(req.extracted_entities) :
        dict_get(idm, req.extracted_entities[i].id) = id}

\* the description an entity with description d has after the candidates at the
\* positions ps were merged into it in order: the first one that is not empty
FirstDescription(d, req, ps) ==
    LET filled == {i \in ps : req.extracted_entities[i].description # ""}
    IN IF d # "" \/ filled = {} THEN d
       ELSE req.extracted_entities[CHOOSE i \in filled : \A j \in filled : i <= j].description

\* the largest of a set of confidences
Highest(cs) == CHOOSE c \in cs : \A d \in cs : d <= c

\* C21: an augment() call leaves every entity that was in the graph in its place, with a
\* confidence that did not decrease and is the highest of its own and those of the
\* candidates merged into it, and with its description unless that was empty, in which
\* case it is the first non-empty description of the candidates merged into it.
C21_MergeRaisesOnly ==
    [][last'.op = "augment" =>
          /\ Len(entities') >= Len(entities)
          /\ \A p \in 1..Len(entities) :
                /\ entities'[p].id = entities[p].id
                /\ entities'[p].confidence >= entities[p].confidence
                /\ entities'[p].confidence =
                      Highest({entities[p].confidence} \cup
                              {last'.args.extracted_entities[i].confidence :
                                  i \in MergedInto(last'.args, id_map', entities[p].id)})
                /\ entities[p].description # "" =>
                      entities'[p].description = entities[p].description
                /\ entities'[p].description =
                      FirstDescription(entities[p].description, last'.args,
                                       MergedInto(last'.args, id_map', entities[p].id))]_vars

\* C21 witness: the root cause has the description "x" and the confidence 100 of earlier
\* candidates after a call whose candidates, both merged into it, had the description "y"
\* and confidences below 100
C21_LowerCandidateMerged ==
    /\ last.op = "augment"
    /\ \E p \in 1..Len(entities) :
          /\ MergedInto(last.args, id_map, entities[p].id) = {1, 2}
          /\ entities[p].description = "x"
          /\ entities[p].confidence = 100
          /\ last.args.extracted_entities[2].description = "y"
          /\ last.args.extracted_entities[1].confidence < 100
          /\ last.args.extracted_entities[2].confidence < 100
          /\ Len(entities[p].attributes.provenance) >= 2

\* the number of positions of the sequence seq that hold x
Occurrences(seq, x) == Cardinality({k \in 1..Len(seq) : seq[k] = x})

\* C22: an augment() call keeps the provenance records an entity had, in their order, and
\* appends one record {report_id, source_text} per candidate merged into it; and every
\* merge is reported: an id is in diff.updated_entities once per candidate that resolved
\* to it, less the one that added it if the call added it.
C22_ProvenanceAppendOnly ==
    [][last'.op = "augment" =>
          /\ \A p \in 1..Len(entities) :
                LET before == entities[p].attributes.provenance
                    after == entities'[p].attributes.provenance
                    merged == MergedInto(last'.args, id_map', entities[p].id)
                IN /\ Len(after) = Len(before) + Cardinality(merged)
                   /\ SubSeq(after, 1, Len(before)) = before
                   /\ \A k \in Len(before) + 1..Len(after) :
                         \E i \in merged :
                            after[k] = _build_provenance(
                                           last'.args.report_id,
                                           last'.args.extracted_entities[i].source_text)
          /\ \A id \in {entities'[p].id : p \in 1..Len(entities')} :
                Occurrences(diff'.updated_entities, id)
                   = Cardinality(MergedInto(last'.args, id_map', id))
                     - Occurrences(diff'.added_entities, id)
          /\ \A k \in 1..Len(diff'.updated_entities) :
                diff'.updated_entities[k] \in {entities'[p].id : p \in 1..Len(entities')}]_vars

\* C22 witness: two candidates were merged into a root cause of confidence 100 whose
\* description was set, neither changing them; the entity has a provenance record for
\* each merge it ever had and its id is twice in diff.updated_entities
C22_UnchangedMergeReported ==
    /\ last.op = "augment"
    /\ \E p \in 1..Len(entities) :
          /\ entities[p].confidence = 100
          /\ entities[p].description = "y"
          /\ \A i \in {1, 2} : last.args.extracted_entities[i].confidence < 100
          /\ Occurrences(diff.added_entities, entities[p].id) = 0
          /\ Occurrences(diff.updated_entities, entities[p].id) = 2
          /\ Len(entities[p].attributes.provenance) = 3

\* the positions of the candidate relations of the call req that resolved to the key of
\* the relation r
ResolvedTo(req, idm, r) ==
    {i \in 1..Len(req.extracted_relations) :
        /\ dict_get(idm, req.extracted_relations[i].source_id) = r.source_id
        /\ dict_get(idm, req.extracted_relations[i].target_id) = r.target_id
        /\ req.extracted_relations[i].relation_type = r.relation_type}

\* the evidence ev after the candidates at the positions ps, from position i on, were
\* merged in order: a candidate's evidence is joined with " | " if it is not empty and
\* not a substring of the evidence so far
RECURSIVE EvidenceAfter(_, _, _, _)
EvidenceAfter(ev, req, ps, i) ==
    IF i > Len(req.extracted_relations) THEN ev
    ELSE IF i \notin ps
            \/ req.extracted_relations[i].evidence = <<>>
            \/ str_contains(ev, req.extracted_relations[i].evidence)
    THEN EvidenceAfter(ev, req, ps, i + 1)
    ELSE EvidenceAfter(IF ev = <<>> THEN req.extracted_relations[i].evidence
                       ELSE ev \o <<" ", "|", " ">> \o req.extracted_relations[i].evidence,
                       req, ps, i + 1)

\* the entry of the diff for the relation r
DiffKey(r) == [source |-> r.source_id, target |-> r.target_id, type |-> r.relation_type]

\* C23: an augment() call appends no relation for a candidate whose key is stored: the
\* stored relation stays the only one of its key, its confidence becomes the highest of
\* its own and the candidates', the candidates' evidence is joined with " | " unless empty
\* or already a substring, one provenance record is appended per candidate, and the key
\* is in diff.updated_relations once per candidate.
C23_RelationMergedInPlace ==
    [][last'.op = "augment" =>
          \A q \in 1..Len(relations) :
             LET ps == ResolvedTo(last'.args, id_map', relations[q])
             IN /\ DiffKey(relations'[q]) = DiffKey(relations[q])
                /\ \A o \in 1..Len(relations') :
                      DiffKey(relations'[o]) = DiffKey(relations[q]) => o = q
                /\ relations'[q].confidence =
                      Highest({relations[q].confidence} \cup
                              {last'.args.extracted_relations[i].confidence : i \in ps})
                /\ relations'[q].evidence =
                      EvidenceAfter(relations[q].evidence, last'.args, ps, 1)
                /\ Len(relations'[q].attributes.provenance) =
                      Len(relations[q].attributes.provenance) + Cardinality(ps)
                /\ Occurrences(diff'.updated_relations, DiffKey(relations[q]))
                      = Cardinality(ps)
                /\ Occurrences(diff'.added_relations, DiffKey(relations[q])) = 0]_vars

\* C23 witness: the stored relation had the evidence "ev"; a call brought the evidence "x"
\* with confidence 90 and then "ev" again: the evidence is "ev | x", the confidence 90,
\* both candidates are reported as updates and no relation was added
C23_EvidenceJoinedOnce ==
    /\ last.op = "augment"
    /\ Len(last.args.extracted_relations) = 2
    /\ last.args.extracted_relations[2].evidence = <<"e","v">>
    /\ Len(relations) = 1
    /\ relations[1].evidence = <<"e","v"," ","|"," ","x">>
    /\ relations[1].confidence = 90
    /\ Len(diff.updated_relations) = 2
    /\ diff.added_relations = <<>>

\* the candidate relation r of a call has an endpoint that the id map idm does not hold
Unresolved(r, idm) == r.source_id \notin DOMAIN idm \/ r.target_id \notin DOMAIN idm

\* the candidate relations rels from position i on that have an unresolved endpoint, as
\* entries of diff.skipped_relations
RECURSIVE SkippedEntries(_, _, _)
SkippedEntries(rels, idm, i) ==
    IF i > Len(rels) THEN <<>>
    ELSE (IF Unresolved(rels[i], idm) THEN <<DiffKey(rels[i])>> ELSE <<>>)
         \o SkippedEntries(rels, idm, i + 1)

\* the candidate relations rels from position i on without those with an unresolved endpoint
RECURSIVE ResolvedOnly(_, _, _)
ResolvedOnly(rels, idm, i) ==
    IF i > Len(rels) THEN <<>>
    ELSE (IF Unresolved(rels[i], idm) THEN <<>> ELSE <<rels[i]>>)
         \o ResolvedOnly(rels, idm, i + 1)

\* C24: after an augment() call every candidate entity has an entry in the id map that
\* names an entity the graph held after entity resolution; the candidate relations with
\* an endpoint missing from the id map are the entries of diff.skipped_relations, in
\* order, and apart from these entries the graph and the diff are what the call without
\* those candidates would have left: no entity, relation or conflict comes from them.
C24_SkippedRelationChangesNothing ==
    [][last'.op = "augment" =>
          /\ \A i \in 1..Len(last'.args.extracted_entities) :
                /\ last'.args.extracted_entities[i].id \in DOMAIN id_map'
                /\ \E p \in 1..marks'.entA :
                      entities'[p].id = id_map'[last'.args.extracted_entities[i].id]
          /\ diff'.skipped_relations
                = SkippedEntries(last'.args.extracted_relations, id_map', 1)
          /\ diff'.skipped_relations # <<>> =>
                \E without \in
                      {augment(G, last'.args.extracted_entities,
                               ResolvedOnly(last'.args.extracted_relations, id_map', 1),
                               last'.args.report_id, last'.args.feedback,
                               last'.args.case_filter, last'.args.fuzzy_match)} :
                   /\ without.diff.skipped_relations = <<>>
                   /\ entities' = without.g.entities
                   /\ relations' = without.g.relations
                   /\ edges' = without.g.edges
                   /\ diff' = [without.diff EXCEPT
                                  !.skipped_relations = diff'.skipped_relations]]_vars

\* C24 witness: the batch named e1 and e2 and a relation from e2 to e3; the relation is
\* the one skipped entry, both candidates are in the id map and another relation of the
\* batch was added
C24_RelationSkipped ==
    /\ last.op = "augment"
    /\ DOMAIN id_map = {"e1", "e2"}
    /\ diff.skipped_relations = <<[source |-> "e2", target |-> "e3", type |-> "CAUSES"]>>
    /\ Len(diff.added_relations) >= 1
    /\ Len(relations) = marks.rel0 + Len(diff.added_relations)

-----------------------------------------------------------------------------
(* Properties of the entity matching of augment() *)

\* the i-th candidate of the call req, as augment() matches it
Candidate(req, i) == canonicalized(req.extracted_entities[i])

\* the i-th candidate of the call req has no exact hit: neither a stored entity nor an
\* earlier candidate of the batch has its kind and normalised label
NoExactHit(req, ents, i) ==
    /\ \A p \in 1..Len(ents) : index_key(ents[p]) # index_key(Candidate(req, i))
    /\ \A j \in 1..(i - 1) : index_key(Candidate(req, j)) # index_key(Candidate(req, i))

\* the similarity of the normalised labels of a candidate and an entity
Score(c, e) == _similarity(_normalize_label(c.label), _normalize_label(e.label))

\* the positions of the entities ents of the kind of the candidate c whose score, given
\* by scores, is the highest one of that kind and reaches the threshold
BestOfKind(c, ents, scores) ==
    {p \in 1..Len(ents) :
        /\ ents[p].entity_type = c.entity_type
        /\ ratio_ge_hundredths(scores[p], similarity_threshold)
        /\ \A q \in 1..Len(ents) :
              ents[q].entity_type = c.entity_type => ~ratio_gt(scores[q], scores[p])}

\* the i-th candidate of the call was added as a new entity: it is the first candidate
\* that resolved to an id of diff.added_entities
AddedAsNew(req, idm, df, i) ==
    /\ Occurrences(df.added_entities, idm[req.extracted_entities[i].id]) > 0
    /\ \A j \in 1..(i - 1) :
          idm[req.extracted_entities[j].id] # idm[req.extracted_entities[i].id]

\* C25: a candidate of an augment() call without an exact hit resolves, when fuzzy
\* matching is enabled and an entity of its kind that was in the graph before the call
\* scores at least the threshold, to the first of the entities of its kind with the
\* highest score; otherwise, and always when fuzzy matching is disabled, it is added as
\* a new entity.
C25_FuzzyMatchBestOfKind ==
    [][last'.op = "augment" =>
          \A i \in 1..Len(last'.args.extracted_entities) :
             NoExactHit(last'.args, entities, i) =>
                \E best \in
                      {BestOfKind(Candidate(last'.args, i), entities,
                                  [p \in 1..Len(entities) |->
                                      Score(Candidate(last'.args, i), entities[p])])} :
                   IF last'.args.fuzzy_match /\ best # {}
                   THEN id_map'[last'.args.extracted_entities[i].id]
                           = entities[CHOOSE p \in best : \A q \in best : p <= q].id
                   ELSE /\ AddedAsNew(last'.args, id_map', diff', i)
                        /\ \A p \in 1..Len(entities) :
                              entities[p].id # id_map'[last'.args.extracted_entities[i].id]]_vars

\* C25 witness: the graph held the components "DDR votingy" and "DDR votingx", in this
\* order, and the symptom "DDR votings"; the candidate component "DDR voting" was
\* matched with fuzzy matching to the first of the two components and nothing was added
C25_TieKeepsFirst ==
    /\ last.op = "augment"
    /\ last.args.fuzzy_match
    /\ Len(last.args.extracted_entities) = 1
    /\ Len(entities) = 3
    /\ entities[1].id = <<"usr", "s">>
    /\ entities[2].id = <<"usr", "y">>
    /\ entities[3].id = <<"usr", "x">>
    /\ id_map["e1"] = <<"usr", "y">>
    /\ diff.added_entities = <<>>
    /\ diff.updated_entities = << <<"usr", "y">> >>

\* C26: after an augment() call no candidate was added as a new entity although an
\* earlier candidate of the batch that was added as a new entity has its kind and either
\* its normalised label or, with fuzzy matching, a label that scores at least the
\* threshold.
C26_LaterCandidateMatchesJustAdded ==
    last.op = "augment" =>
       \A i \in 1..Len(last.args.extracted_entities) :
          \A j \in 1..(i - 1) :
             (/\ AddedAsNew(last.args, id_map, diff, j)
              /\ Candidate(last.args, j).entity_type = Candidate(last.args, i).entity_type
              /\ \/ index_key(Candidate(last.args, j)) = index_key(Candidate(last.args, i))
                 \/ /\ last.args.fuzzy_match
                    /\ ratio_ge_hundredths(Score(Candidate(last.args, i),
                                                  Candidate(last.args, j)),
                                            similarity_threshold))
             => ~AddedAsNew(last.args, id_map, diff, i)

-----------------------------------------------------------------------------
(* Properties of the feedback phase and the autolink pass *)

\* the entity of the graph at the endpoint id of a relation
Endpoint(id) == entities[CHOOSE p \in 1..Len(entities) : entities[p].id = id]

\* C27: the relations the autolink pass of the last augment() call added go from a
\* Metric to a Component with kind INDICATES and confidence 0.3, from a Metric that had
\* no outgoing INDICATES, CONFIRMS or RULES_OUT relation when the pass started, and no
\* two of them from the same Metric.
C27_AutolinkOnlyUnlinkedMetrics ==
    last.op = "augment" =>
       \A k \in (marks.relB + 1)..marks.relC :
          /\ Endpoint(relations[k].source_id).entity_type = "Metric"
          /\ Endpoint(relations[k].target_id).entity_type = "Component"
          /\ relations[k].relation_type = "INDICATES"
          /\ relations[k].confidence = 30
          /\ \A q \in 1..marks.relB :
                relations[q].source_id = relations[k].source_id
                => relations[q].relation_type \notin {"INDICATES", "CONFIRMS", "RULES_OUT"}
          /\ \A o \in (marks.relB + 1)..marks.relC :
                relations[o].source_id = relations[k].source_id => o = k

\* the fields of an entity the later phases must keep
EntityCore(e) == <<e.id, e.entity_type, e.label, e.description, e.confidence>>

\* the fields of a relation the later phases must keep
RelationCore(r) == <<r.source_id, r.target_id, r.relation_type, r.confidence, r.evidence>>

\* C28: the entities and the relations the graph holds when the extraction phase of an
\* augment() call is over are in the graph after the call, at their positions, with the
\* id, kind, label, description and confidence, and the endpoints, kind, confidence and
\* evidence they had: the feedback phase and the autolink pass only add.
C28_LaterPhasesAddOnly ==
    [][last'.op = "augment" =>
          \E a \in {phaseA(G, last'.args.extracted_entities, last'.args.extracted_relations,
                           last'.args.report_id, last'.args.fuzzy_match)} :
             /\ Len(a.g.entities) <= Len(entities')
             /\ Len(a.g.relations) <= Len(relations')
             /\ \A p \in 1..Len(a.g.entities) :
                   EntityCore(entities'[p]) = EntityCore(a.g.entities[p])
             /\ \A q \in 1..Len(a.g.relations) :
                   RelationCore(relations'[q]) = RelationCore(a.g.relations[q])
             /\ \A p \in (Len(a.g.entities) + 1)..Len(entities') :
                   \A o \in 1..Len(a.g.entities) : entities'[p].id # a.g.entities[o].id]_vars

\* C28 witness: a graph with entities and relations was augmented with feedback; the
\* feedback phase found a relation of its own stored and added entities and relations
C28_FeedbackOnStoredGraph ==
    /\ last.op = "augment"
    /\ last.args.feedback # <<>>
    /\ marks.entA >= 2
    /\ marks.relA >= 2
    /\ marks.relB > marks.relA
    /\ diff.feedback_skipped_existing_relations # <<>>
    /\ Len(entities) = marks.entC

\* C29: every relation the feedback phase or the autolink pass of an augment() call has
\* added connects two distinct entities: its source_id differs from its target_id, so
\* the validator's No Self-Loops check does not fail on them.
C29_LaterPhasesAddNoSelfLoop ==
    last.op = "augment" =>
        \A k \in (marks.relA + 1)..marks.relC :
            k \in 1..Len(relations) => relations[k].source_id # relations[k].target_id

\* the graph after the step
GNext ==
    [entities |-> entities', relations |-> relations', edges |-> edges',
     strict_dag |-> strict_dag']

\* C30: an augment() call on a strict-mode graph for which is_valid_dag() is true leaves
\* a graph for which is_valid_dag() is true, so no sequence of calls that starts from a
\* valid graph reaches one in which validate() or the DAG Structure check finds a cycle.
C30_AugmentKeepsValidDag ==
    [][(last'.op = "augment" /\ strict_dag /\ is_valid_dag(G)) => is_valid_dag(GNext)]_vars

====
